---- MODULE Spec2Model ----
(***************************************************************************)
(* A model of glade::Orthtree (include/glade/orthtree.h and                *)
(* include/glade/orthtree_range.h): the flat node / leaf store, point      *)
(* location, split and merge, the single and range mutators, adjust and    *)
(* the bulk constructor.                                                   *)
(*                                                                         *)
(* A tree is a record                                                      *)
(*   [nodes, leafs, nodeCapacity, maxDepth, autoAdjust]                    *)
(* whose fields are the data members of the class.  Node and leaf          *)
(* iterators are (tree, index) pairs in the source; here they are the      *)
(* 0-based index, so nodes().end() is Len(t.nodes) and leafs().end() is    *)
(* Len(t.leafs).  Element i of a C++ vector is element i + 1 of the        *)
(* sequence.  Dim, the template parameter, is the length of the root's     *)
(* position vector.                                                        *)
(***************************************************************************)
EXTENDS Integers, Sequences, FiniteSets, TLC

\* ------------------------------------------------------------------------
\* Bounds of the model.
\* ------------------------------------------------------------------------
MaxLeafs == 2
MaxRange == 2

\* ------------------------------------------------------------------------
\* Scalars.  A coordinate is an integer, or NaN, the one value for which
\* every comparison is false and which every subtraction propagates.
\* ------------------------------------------------------------------------
NaN == 0 - 99

IsNaN(a) == a = NaN

ScalarGe(a, b) == ~IsNaN(a) /\ ~IsNaN(b) /\ a >= b

ScalarLt(a, b) == ~IsNaN(a) /\ ~IsNaN(b) /\ a < b

ScalarSub(a, b) == IF IsNaN(a) \/ IsNaN(b) THEN NaN ELSE a - b

ScalarAdd(a, b) == IF IsNaN(a) \/ IsNaN(b) THEN NaN ELSE a + b

ScalarHalf(a) == IF IsNaN(a) THEN NaN ELSE a \div 2

\* ------------------------------------------------------------------------
\* The store.
\* ------------------------------------------------------------------------
\* The contents of a vector, element by element: the sequence with the same
\* elements as the function f on 1 .. n.
Vector(f) == f \o << >>

Dim(t) == Len(t.nodes[1].position)

NumChildren(t) == 2 ^ Dim(t)

LeafInternal(position, value) == [position |-> position, value |-> value]

\* A node is constructed as an empty root node: every child offset is 1.
NodeInternal(position, dimensions) ==
    [position     |-> position,
     dimensions   |-> dimensions,
     depth        |-> 0,
     childIndices |-> Vector([k \in 1 .. (2 ^ Len(position)) + 1 |-> 1]),
     parentIndex  |-> 0,
     siblingIndex |-> 0,
     leafCount    |-> 0,
     leafIndex    |-> 0,
     hasChildren  |-> FALSE,
     value        |-> 0]

Orthtree(position, dimensions, nodeCapacity, maxDepth, autoAdjust) ==
    [nodes        |-> << NodeInternal(position, dimensions) >>,
     leafs        |-> << >>,
     nodeCapacity |-> nodeCapacity,
     maxDepth     |-> maxDepth,
     autoAdjust   |-> autoAdjust]

NodeAt(t, i) == t.nodes[i + 1]

LeafAt(t, j) == t.leafs[j + 1]

NodesEnd(t) == Len(t.nodes)

LeafsEnd(t) == Len(t.leafs)

\* NodeIteratorBase::operator*: the fields of the reference proxy.
hasParent(i) == i # 0

parent(t, i) == i + NodeAt(t, i).parentIndex

children(t, i, k) == i + NodeAt(t, i).childIndices[k + 1]

leafsBegin(t, i) == NodeAt(t, i).leafIndex

leafsEnd(t, i) == NodeAt(t, i).leafIndex + NodeAt(t, i).leafCount

leafsSize(t, i) == leafsEnd(t, i) - leafsBegin(t, i)

descendantsSize(t, i) == children(t, i, NumChildren(t)) - children(t, i, 0)

\* canHoldLeafs with the depth ceiling taken one level too deep.
canHoldLeafsDeeper(t, i, n) ==
    \/ (leafsSize(t, i) + n >= 0 /\ leafsSize(t, i) + n <= t.nodeCapacity)
    \/ NodeAt(t, i).depth >= t.maxDepth + 1

\* canHoldLeafs with the capacity taken one too large.
canHoldLeafsOneMore(t, i, n) ==
    \/ (leafsSize(t, i) + n >= 0
        /\ leafsSize(t, i) + n <= t.nodeCapacity + 1)
    \/ NodeAt(t, i).depth >= t.maxDepth

\* node->leafs.size() + n is computed in the unsigned size type: a negative
\* sum wraps to a value above every capacity.
canHoldLeafs(t, i, n) ==
    \/ (leafsSize(t, i) + n >= 0 /\ leafsSize(t, i) + n <= t.nodeCapacity)
    \/ NodeAt(t, i).depth >= t.maxDepth

\* ------------------------------------------------------------------------
\* Geometry predicates and point location.
\* ------------------------------------------------------------------------
\* contains(node, point) with the far faces of the box taken as part of it.
containsPointClosed(t, i, point) ==
    \A d \in 1 .. Dim(t) :
        /\ ScalarGe(point[d], NodeAt(t, i).position[d])
        /\ ScalarGe(NodeAt(t, i).dimensions[d],
                    ScalarSub(point[d], NodeAt(t, i).position[d]))

containsPoint(t, i, point) ==
    \A d \in 1 .. Dim(t) :
        /\ ScalarGe(point[d], NodeAt(t, i).position[d])
        /\ ScalarLt(ScalarSub(point[d], NodeAt(t, i).position[d]),
                    NodeAt(t, i).dimensions[d])

\* contains(node, leaf) with the end of the leaf range taken as part of it.
containsLeafClosed(t, i, leaf) ==
    /\ leaf >= 0
    /\ leaf >= NodeAt(t, i).leafIndex
    /\ leaf <= NodeAt(t, i).leafIndex + NodeAt(t, i).leafCount

\* The leaf index is converted to the unsigned size type: a negative index
\* becomes a value above every range.
containsLeaf(t, i, leaf) ==
    /\ leaf >= 0
    /\ leaf >= NodeAt(t, i).leafIndex
    /\ leaf < NodeAt(t, i).leafIndex + NodeAt(t, i).leafCount

RECURSIVE ancestorAtDepth(_, _, _)
ancestorAtDepth(t, i, depth) ==
    IF NodeAt(t, i).depth > depth
    THEN ancestorAtDepth(t, parent(t, i), depth)
    ELSE i

containsNode(t, p, i) == ancestorAtDepth(t, i, NodeAt(t, p).depth) = p

\* The child index computed from the first axis alone.
childIndexOfFirstAxis(t, i, point, d) ==
    IF ScalarGe(ScalarSub(point[1], NodeAt(t, i).position[1]),
                ScalarHalf(NodeAt(t, i).dimensions[1]))
    THEN 1 ELSE 0

RECURSIVE childIndexOf(_, _, _, _)
childIndexOf(t, i, point, d) ==
    IF d > Dim(t) THEN 0
    ELSE (IF ScalarGe(ScalarSub(point[d], NodeAt(t, i).position[d]),
                      ScalarHalf(NodeAt(t, i).dimensions[d]))
          THEN 2 ^ (d - 1) ELSE 0)
         + childIndexOf(t, i, point, d + 1)

\* findChild(node, point) that always answers with the first child.
findChildFirst(t, i, point) == children(t, i, 0)

findChildPoint(t, i, point) == children(t, i, childIndexOf(t, i, point, 1))

RECURSIVE findChildLeafFrom(_, _, _, _)
findChildLeafFrom(t, i, leaf, k) ==
    IF k >= NumChildren(t) THEN NodesEnd(t)
    ELSE IF containsLeaf(t, children(t, i, k), leaf) THEN children(t, i, k)
    ELSE findChildLeafFrom(t, i, leaf, k + 1)

findChildLeaf(t, i, leaf) == findChildLeafFrom(t, i, leaf, 0)

RECURSIVE descendPoint(_, _, _)
descendPoint(t, i, point) ==
    IF NodeAt(t, i).hasChildren
    THEN descendPoint(t, findChildPoint(t, i, point), point)
    ELSE i

\* find(hint, point) without the loop that goes up from the hint.
findPointBelowHint(t, hint, point) == descendPoint(t, hint, point)

RECURSIVE findPoint(_, _, _)
findPoint(t, hint, point) ==
    IF ~containsPoint(t, hint, point)
    THEN IF hasParent(hint) THEN findPoint(t, parent(t, hint), point)
         ELSE NodesEnd(t)
    ELSE descendPoint(t, hint, point)

RECURSIVE descendLeaf(_, _, _)
descendLeaf(t, i, leaf) ==
    IF NodeAt(t, i).hasChildren
    THEN descendLeaf(t, findChildLeaf(t, i, leaf), leaf)
    ELSE i

\* find(hint, leaf) that gives up where the hint does not contain the leaf.
findLeafAtHint(t, hint, leaf) ==
    IF ~containsLeaf(t, hint, leaf) THEN NodesEnd(t)
    ELSE descendLeaf(t, hint, leaf)

RECURSIVE findLeaf(_, _, _)
findLeaf(t, hint, leaf) ==
    IF ~containsLeaf(t, hint, leaf)
    THEN IF hasParent(hint) THEN findLeaf(t, parent(t, hint), leaf)
         ELSE NodesEnd(t)
    ELSE descendLeaf(t, hint, leaf)

\* ------------------------------------------------------------------------
\* Splitting and merging.
\* ------------------------------------------------------------------------
\* The node and its ancestors, following parentIndex up to index 0.
RECURSIVE selfAndAncestors(_, _)
selfAndAncestors(t, i) ==
    IF hasParent(i) THEN {i} \cup selfAndAncestors(t, parent(t, i)) ELSE {i}

\* The child whose position is shifted on the axes whose bit of index is not
\* set.
newChildMirrored(t, i, index) ==
    [NodeInternal(NodeAt(t, i).position, NodeAt(t, i).dimensions) EXCEPT
        !.depth        = NodeAt(t, i).depth + 1,
        !.parentIndex  = 0 - (index + 1),
        !.siblingIndex = index,
        !.leafIndex    = NodeAt(t, i).leafIndex + NodeAt(t, i).leafCount,
        !.dimensions   = Vector([d \in 1 .. Dim(t) |->
                             ScalarHalf(NodeAt(t, i).dimensions[d])]),
        !.position     = Vector([d \in 1 .. Dim(t) |->
                             IF (index \div (2 ^ (d - 1))) % 2 = 0
                             THEN ScalarAdd(NodeAt(t, i).position[d],
                                      ScalarHalf(NodeAt(t, i).dimensions[d]))
                             ELSE NodeAt(t, i).position[d]])]

newChild(t, i, index) ==
    [NodeInternal(NodeAt(t, i).position, NodeAt(t, i).dimensions) EXCEPT
        !.depth        = NodeAt(t, i).depth + 1,
        !.parentIndex  = 0 - (index + 1),
        !.siblingIndex = index,
        !.leafIndex    = NodeAt(t, i).leafIndex + NodeAt(t, i).leafCount,
        !.dimensions   = Vector([d \in 1 .. Dim(t) |->
                             ScalarHalf(NodeAt(t, i).dimensions[d])]),
        !.position     = Vector([d \in 1 .. Dim(t) |->
                             IF (index \div (2 ^ (d - 1))) % 2 = 1
                             THEN ScalarAdd(NodeAt(t, i).position[d],
                                      ScalarHalf(NodeAt(t, i).dimensions[d]))
                             ELSE NodeAt(t, i).position[d]])]

allocChildren(t, i) ==
    [t EXCEPT !.nodes =
        SubSeq(t.nodes, 1, i + 1)
        \o [k \in 1 .. NumChildren(t) |-> newChild(t, i, k - 1)]
        \o SubSeq(t.nodes, i + 2, Len(t.nodes))]

\* freeChildren that erases the 2^Dim nodes after the node and not the
\* nodes of their descendants.
freeChildrenDirect(t, i) ==
    [t EXCEPT !.nodes =
        SubSeq(t.nodes, 1, children(t, i, 0))
        \o SubSeq(t.nodes, children(t, i, 0) + NumChildren(t) + 1,
                  Len(t.nodes))]

freeChildren(t, i) ==
    [t EXCEPT !.nodes =
        SubSeq(t.nodes, 1, children(t, i, 0))
        \o SubSeq(t.nodes, children(t, i, NumChildren(t)) + 1, Len(t.nodes))]

\* The inner loop of updateAncestorChildData without the update of the
\* parentIndex of the siblings.
RECURSIVE updateLaterSiblingsOffsetsOnly(_, _, _, _, _)
updateLaterSiblingsOffsetsOnly(t, p, k, childCountChange, updateParentIndices) ==
    IF k >= NumChildren(t) THEN t
    ELSE updateLaterSiblingsOffsetsOnly(
             [t EXCEPT !.nodes[p + 1].childIndices[k + 1] =
                           @ + childCountChange],
             p, k + 1, childCountChange, updateParentIndices)

\* The inner loop of updateAncestorChildData: the siblings after the child
\* on the path, from sibling index k on.  The child is looked up through
\* the offset that was just changed; where that names no node of the array
\* the write to its parentIndex changes no node of the array.
RECURSIVE updateLaterSiblings(_, _, _, _, _)
updateLaterSiblings(t, p, k, childCountChange, updateParentIndices) ==
    IF k >= NumChildren(t) THEN t
    ELSE LET t1 == [t EXCEPT !.nodes[p + 1].childIndices[k + 1] =
                                 @ + childCountChange]
             child == children(t1, p, k)
             t2 == IF updateParentIndices
                      /\ child >= 0 /\ child < NodesEnd(t1)
                   THEN [t1 EXCEPT !.nodes[child + 1].parentIndex =
                                       @ - childCountChange]
                   ELSE t1
         IN  updateLaterSiblings(t2, p, k + 1, childCountChange,
                                 updateParentIndices)

\* updateAncestorChildData that renumbers every sibling but the first, the
\* earlier ones and the child on the path included.
RECURSIVE updateAncestorChildDataFromFirst(_, _, _, _)
updateAncestorChildDataFromFirst(t, i, childCountChange, updateParentIndices) ==
    IF ~hasParent(i) THEN t
    ELSE updateAncestorChildDataFromFirst(
             [updateLaterSiblings(t, parent(t, i), 1, childCountChange,
                                  updateParentIndices)
                 EXCEPT !.nodes[parent(t, i) + 1]
                            .childIndices[NumChildren(t) + 1] =
                                @ + childCountChange],
             parent(t, i), childCountChange, updateParentIndices)

\* updateAncestorChildData without the update of the sentinel, the last
\* entry of childIndices, of the ancestors.
RECURSIVE updateAncestorChildDataNoSentinel(_, _, _, _)
updateAncestorChildDataNoSentinel(t, i, childCountChange, updateParentIndices) ==
    IF ~hasParent(i) THEN t
    ELSE updateAncestorChildDataNoSentinel(
             updateLaterSiblings(t, parent(t, i), NodeAt(t, i).siblingIndex + 1,
                                 childCountChange, updateParentIndices),
             parent(t, i), childCountChange, updateParentIndices)

RECURSIVE updateAncestorChildData(_, _, _, _)
updateAncestorChildData(t, i, childCountChange, updateParentIndices) ==
    IF ~hasParent(i) THEN t
    ELSE LET p  == parent(t, i)
             t1 == updateLaterSiblings(t, p, NodeAt(t, i).siblingIndex + 1,
                                       childCountChange, updateParentIndices)
             t2 == [t1 EXCEPT !.nodes[p + 1].childIndices[NumChildren(t) + 1] =
                                  @ + childCountChange]
         IN  updateAncestorChildData(t2, p, childCountChange,
                                     updateParentIndices)

\* The change in the number of nodes that updateNodeChildData returns.
childCountChangeOf(t, i, childrenCreated) ==
    (IF childrenCreated THEN NumChildren(t) + 1 ELSE 1)
    - NodeAt(t, i).childIndices[NumChildren(t) + 1]

updateNodeChildData(t, i, childrenCreated, updateParentIndices) ==
    LET t1 == [t EXCEPT
                 !.nodes[i + 1].hasChildren = childrenCreated,
                 !.nodes[i + 1].childIndices =
                     Vector([k \in 1 .. NumChildren(t) + 1 |->
                                IF childrenCreated THEN k ELSE 1])]
    IN  updateAncestorChildData(t1, i,
            childCountChangeOf(t, i, childrenCreated), updateParentIndices)

\* moveAt: rotate the leaf at index sourceLeaf to the end of destNode's
\* slice; the result is [t, leaf], leaf being the index the leaf ends at.
moveAtLeaf(t, destNode, sourceLeaf) ==
    IF leafsEnd(t, destNode) > sourceLeaf THEN leafsEnd(t, destNode) - 1
    ELSE IF leafsEnd(t, destNode) < sourceLeaf THEN leafsEnd(t, destNode)
    ELSE sourceLeaf

\* The leaf vector of moveAt with the leaf copied to its new place and the
\* leaves between left where they are.
moveAtLeafsOverwrite(t, destNode, sourceLeaf) ==
    [t.leafs EXCEPT ![moveAtLeaf(t, destNode, sourceLeaf) + 1] =
                        t.leafs[sourceLeaf + 1]]

\* The leaf vector of moveAt with the leaf exchanged with the one at its new
\* place instead of rotated there.
moveAtLeafsSwap(t, destNode, sourceLeaf) ==
    [t.leafs EXCEPT ![moveAtLeaf(t, destNode, sourceLeaf) + 1] =
                        t.leafs[sourceLeaf + 1],
                    ![sourceLeaf + 1] =
                        t.leafs[moveAtLeaf(t, destNode, sourceLeaf) + 1]]

moveAtLeafs(t, destNode, sourceLeaf) ==
    LET destLeaf == leafsEnd(t, destNode)
    IN  Vector([j \in 1 .. Len(t.leafs) |->
            IF destLeaf > sourceLeaf
            THEN IF j - 1 >= sourceLeaf /\ j - 1 < destLeaf - 1
                 THEN t.leafs[j + 1]
                 ELSE IF j - 1 = destLeaf - 1 THEN t.leafs[sourceLeaf + 1]
                 ELSE t.leafs[j]
            ELSE IF destLeaf < sourceLeaf
            THEN IF j - 1 = destLeaf THEN t.leafs[sourceLeaf + 1]
                 ELSE IF j - 1 > destLeaf /\ j - 1 <= sourceLeaf
                 THEN t.leafs[j - 1]
                 ELSE t.leafs[j]
            ELSE t.leafs[j]])

moveAtNodes(t, sourceNode, destNode) ==
    LET nodeInverted    == sourceNode >= destNode
        leafIndexOffset == IF nodeInverted THEN 1 ELSE 0 - 1
        firstNode       == IF nodeInverted THEN destNode ELSE sourceNode
        lastNode        == IF nodeInverted THEN sourceNode ELSE destNode
        up              == selfAndAncestors(t, destNode)
        down            == selfAndAncestors(t, sourceNode)
    IN  Vector([k \in 1 .. Len(t.nodes) |->
            [t.nodes[k] EXCEPT
                !.leafCount = @ + (IF k - 1 \in up THEN 1 ELSE 0)
                                - (IF k - 1 \in down THEN 1 ELSE 0),
                !.leafIndex = IF k - 1 > firstNode /\ k - 1 <= lastNode
                              THEN @ + leafIndexOffset ELSE @]])

moveAt(t, sourceNode, destNode, sourceLeaf) ==
    [t    |-> [t EXCEPT !.leafs = moveAtLeafs(t, destNode, sourceLeaf),
                        !.nodes = moveAtNodes(t, sourceNode, destNode)],
     leaf |-> moveAtLeaf(t, destNode, sourceLeaf)]

\* distributeLeafs: one step per leaf of the node, always taking the leaf at
\* the front of the node's slice.
RECURSIVE distributeLeafsFrom(_, _, _)
distributeLeafsFrom(t, i, index) ==
    IF index >= leafsSize(t, i) THEN t
    ELSE LET leaf  == leafsBegin(t, i)
             child == findChildPoint(t, i, LeafAt(t, leaf).position)
         IN  distributeLeafsFrom(moveAt(t, i, child, leaf).t, i, index + 1)

\* distributeLeafs whose loop starts at index 1: one leaf fewer is moved.
distributeLeafsButOne(t, i) == distributeLeafsFrom(t, i, 1)

distributeLeafs(t, i) == distributeLeafsFrom(t, i, 0)

createChildren(t, i) ==
    distributeLeafs(updateNodeChildData(allocChildren(t, i), i, TRUE, TRUE), i)

\* destroyChildren that leaves the nodes of the children in the array.
destroyChildrenKeepNodes(t, i) == updateNodeChildData(t, i, FALSE, TRUE)

destroyChildren(t, i) ==
    updateNodeChildData(freeChildren(t, i), i, FALSE, TRUE)

\* ------------------------------------------------------------------------
\* insertAt and eraseAt.
\* ------------------------------------------------------------------------
\* insertAt without the shift of the leaf ranges of the later nodes.
insertAtNoShift(t, i, value, position) ==
    LET at == leafsEnd(t, i)
        up == selfAndAncestors(t, i)
        t1 == [t EXCEPT
                 !.leafs = SubSeq(t.leafs, 1, at)
                           \o << LeafInternal(position, value) >>
                           \o SubSeq(t.leafs, at + 1, Len(t.leafs)),
                 !.nodes = Vector([k \in 1 .. Len(t.nodes) |->
                              [t.nodes[k] EXCEPT
                                 !.leafCount = IF k - 1 \in up
                                               THEN @ + 1 ELSE @]])]
    IN  [t |-> t1, leaf |-> leafsEnd(t1, i) - 1]

\* insertAt that puts the leaf at the front of the leaf range of the node.
insertAtFront(t, i, value, position) ==
    LET at == leafsBegin(t, i)
        up == selfAndAncestors(t, i)
        t1 == [t EXCEPT
                 !.leafs = SubSeq(t.leafs, 1, at)
                           \o << LeafInternal(position, value) >>
                           \o SubSeq(t.leafs, at + 1, Len(t.leafs)),
                 !.nodes = Vector([k \in 1 .. Len(t.nodes) |->
                              [t.nodes[k] EXCEPT
                                 !.leafIndex = IF k - 1 > i THEN @ + 1 ELSE @,
                                 !.leafCount = IF k - 1 \in up
                                               THEN @ + 1 ELSE @]])]
    IN  [t |-> t1, leaf |-> leafsEnd(t1, i) - 1]

insertAt(t, i, value, position) ==
    LET at == leafsEnd(t, i)
        up == selfAndAncestors(t, i)
        t1 == [t EXCEPT
                 !.leafs = SubSeq(t.leafs, 1, at)
                           \o << LeafInternal(position, value) >>
                           \o SubSeq(t.leafs, at + 1, Len(t.leafs)),
                 !.nodes = Vector([k \in 1 .. Len(t.nodes) |->
                              [t.nodes[k] EXCEPT
                                 !.leafIndex = IF k - 1 > i THEN @ + 1 ELSE @,
                                 !.leafCount = IF k - 1 \in up
                                               THEN @ + 1 ELSE @]])]
    IN  [t |-> t1, leaf |-> leafsEnd(t1, i) - 1]

\* eraseAt that returns the handle behind the one it was given.
eraseAtNext(t, i, leaf) ==
    [t |-> [t EXCEPT
              !.leafs = SubSeq(t.leafs, 1, leaf)
                        \o SubSeq(t.leafs, leaf + 2, Len(t.leafs)),
              !.nodes = Vector([k \in 1 .. Len(t.nodes) |->
                           [t.nodes[k] EXCEPT
                              !.leafIndex = IF k - 1 > i THEN @ - 1 ELSE @,
                              !.leafCount =
                                  IF k - 1 \in selfAndAncestors(t, i)
                                  THEN @ - 1 ELSE @]])],
     leaf |-> leaf + 1]

eraseAt(t, i, leaf) ==
    LET up == selfAndAncestors(t, i)
        t1 == [t EXCEPT
                 !.leafs = SubSeq(t.leafs, 1, leaf)
                           \o SubSeq(t.leafs, leaf + 2, Len(t.leafs)),
                 !.nodes = Vector([k \in 1 .. Len(t.nodes) |->
                              [t.nodes[k] EXCEPT
                                 !.leafIndex = IF k - 1 > i THEN @ - 1 ELSE @,
                                 !.leafCount = IF k - 1 \in up
                                               THEN @ - 1 ELSE @]])]
    IN  [t |-> t1, leaf |-> leaf]

\* ------------------------------------------------------------------------
\* The single-element mutators.  Each returns the new tree and the handles
\* of the returned tuple.
\* ------------------------------------------------------------------------
\* The split loop of insert that does not ask for autoAdjust.
RECURSIVE insertSplitAlways(_, _, _)
insertSplitAlways(t, i, position) ==
    IF ~canHoldLeafs(t, i, 1)
    THEN insertSplitAlways(createChildren(t, i),
                           findPoint(createChildren(t, i), i, position),
                           position)
    ELSE [t |-> t, node |-> i]

\* The split loop of insert with the depth ceiling taken one level too deep.
RECURSIVE insertSplitDeeper(_, _, _)
insertSplitDeeper(t, i, position) ==
    IF t.autoAdjust /\ ~canHoldLeafsDeeper(t, i, 1)
    THEN insertSplitDeeper(createChildren(t, i),
                           findPoint(createChildren(t, i), i, position),
                           position)
    ELSE [t |-> t, node |-> i]

\* The split of insert done once instead of in a loop.
insertSplitOnce(t, i, position) ==
    IF t.autoAdjust /\ ~canHoldLeafs(t, i, 1)
    THEN [t |-> createChildren(t, i),
          node |-> findPoint(createChildren(t, i), i, position)]
    ELSE [t |-> t, node |-> i]

RECURSIVE insertSplit(_, _, _)
insertSplit(t, i, position) ==
    IF t.autoAdjust /\ ~canHoldLeafs(t, i, 1)
    THEN LET t1 == createChildren(t, i)
         IN  insertSplit(t1, findPoint(t1, i, position), position)
    ELSE [t |-> t, node |-> i]

\* The end of insert: s is the tree and the node the split loop ended at.
insertFound(s, value, position) ==
    [t    |-> insertAt(s.t, s.node, value, position).t,
     node |-> s.node,
     leaf |-> insertAt(s.t, s.node, value, position).leaf]

insert(t, hint, value, position) ==
    LET found == findPoint(t, hint, position)
    IN  IF found = NodesEnd(t)
        THEN [t |-> t, node |-> NodesEnd(t), leaf |-> LeafsEnd(t)]
        ELSE insertFound(insertSplit(t, found, position), value, position)

\* The merge loop of erase that never merges.
eraseMergeNever(t, i) == [t |-> t, node |-> i]

\* The merge loop of erase that stops after the first merge.
eraseMergeOnce(t, i) ==
    IF t.autoAdjust /\ hasParent(i) /\ canHoldLeafs(t, parent(t, i), 0 - 1)
    THEN [t |-> destroyChildren(t, parent(t, i)), node |-> parent(t, i)]
    ELSE [t |-> t, node |-> i]

RECURSIVE eraseMerge(_, _)
eraseMerge(t, i) ==
    IF t.autoAdjust /\ hasParent(i) /\ canHoldLeafs(t, parent(t, i), 0 - 1)
    THEN eraseMerge(destroyChildren(t, parent(t, i)), parent(t, i))
    ELSE [t |-> t, node |-> i]

\* The end of erase: m is the tree and the node the merge loop ended at.
eraseFound(m, leaf) ==
    [t    |-> eraseAt(m.t, m.node, leaf).t,
     node |-> m.node,
     leaf |-> eraseAt(m.t, m.node, leaf).leaf]

erase(t, hint, leaf) ==
    LET found == findLeaf(t, hint, leaf)
    IN  IF found = NodesEnd(t)
        THEN [t |-> t, node |-> NodesEnd(t), leaf |-> LeafsEnd(t)]
        ELSE eraseFound(eraseMerge(t, found), leaf)

\* The first loop of move that never merges.
moveMergeNever(t, source, dest) ==
    [t |-> t, source |-> source, dest |-> dest]

\* The first loop of move: merge upward from the source.
RECURSIVE moveMerge(_, _, _)
moveMerge(t, source, dest) ==
    IF /\ hasParent(source)
       /\ canHoldLeafs(t, parent(t, source), 0 - 1)
       /\ ~containsNode(t, parent(t, source), dest)
    THEN moveMerge(destroyChildren(t, parent(t, source)),
                   parent(t, source),
                   IF dest > source THEN dest - NumChildren(t) ELSE dest)
    ELSE [t |-> t, source |-> source, dest |-> dest]

\* The first loop of move on a tree where destroyChildren may remove more
\* than 2^Dim nodes, so that dest, lowered by 2^Dim, may come to lie behind
\* the end of the node array: contains(source->parent, dest) then reads
\* behind the end, and contained is what that read answers.
RECURSIVE moveMergeBehindEnd(_, _, _, _)
moveMergeBehindEnd(t, source, dest, contained) ==
    IF /\ hasParent(source)
       /\ canHoldLeafs(t, parent(t, source), 0 - 1)
       /\ IF dest >= Len(t.nodes) THEN ~contained
          ELSE ~containsNode(t, parent(t, source), dest)
    THEN moveMergeBehindEnd(destroyChildren(t, parent(t, source)),
                            parent(t, source),
                            IF dest > source THEN dest - NumChildren(t)
                            ELSE dest,
                            contained)
    ELSE [t |-> t, source |-> source, dest |-> dest]

\* Whether the first loop of move leaves dest behind the end of the node
\* array.
moveDangles(t, hint, leaf, position) ==
    /\ t.autoAdjust
    /\ findLeaf(t, hint, leaf) # NodesEnd(t)
    /\ findPoint(t, hint, position) # NodesEnd(t)
    /\ \E m \in { moveMergeBehindEnd(t, findLeaf(t, hint, leaf),
                                     findPoint(t, hint, position), TRUE) } :
          m.dest >= Len(m.t.nodes)

\* The second loop of move without the shift of the source.
RECURSIVE moveSplitNoShift(_, _, _, _)
moveSplitNoShift(t, source, dest, position) ==
    IF ~canHoldLeafs(t, dest, 1) /\ dest # source
    THEN moveSplitNoShift(createChildren(t, dest), source,
                          findChildPoint(createChildren(t, dest), dest,
                                         position),
                          position)
    ELSE [t |-> t, source |-> source, dest |-> dest]

\* The second loop of move that never splits.
moveSplitNever(t, source, dest, position) ==
    [t |-> t, source |-> source, dest |-> dest]

\* The second loop of move: split downward into the destination.
RECURSIVE moveSplit(_, _, _, _)
moveSplit(t, source, dest, position) ==
    IF ~canHoldLeafs(t, dest, 1) /\ dest # source
    THEN LET t1 == createChildren(t, dest)
         IN  moveSplit(t1,
                       IF source > dest THEN source + NumChildren(t)
                       ELSE source,
                       findChildPoint(t1, dest, position),
                       position)
    ELSE [t |-> t, source |-> source, dest |-> dest]

\* The split loop of move, from the record the merge loop ended at.
moveSplitFrom(m, position) == moveSplit(m.t, m.source, m.dest, position)

\* The end of move: s is the tree, the source and the destination the two
\* loops ended at.
moveFound(s, leaf, position) ==
    LET t1 == [s.t EXCEPT !.leafs[leaf + 1].position = position]
    IN  [t      |-> moveAt(t1, s.source, s.dest, leaf).t,
         source |-> s.source,
         dest   |-> s.dest,
         leaf   |-> moveAt(t1, s.source, s.dest, leaf).leaf]

move(t, hint, leaf, position) ==
    LET source == findLeaf(t, hint, leaf)
        dest   == findPoint(t, hint, position)
    IN  IF source = NodesEnd(t) \/ dest = NodesEnd(t)
        THEN [t |-> t, source |-> NodesEnd(t), dest |-> NodesEnd(t),
              leaf |-> LeafsEnd(t)]
        ELSE IF t.autoAdjust
             THEN moveFound(moveSplitFrom(moveMerge(t, source, dest),
                                          position),
                            leaf, position)
             ELSE moveFound([t |-> t, source |-> source, dest |-> dest],
                            leaf, position)

\* ------------------------------------------------------------------------
\* adjust.
\* ------------------------------------------------------------------------
\* The tree adjust() builds: its root is a copy of the node, its leaves are
\* the leaves of the node.
newOrthtree(t, node) ==
    [nodes        |-> << [NodeAt(t, node) EXCEPT !.leafIndex = 0] >>,
     leafs        |-> SubSeq(t.leafs, leafsBegin(t, node) + 1,
                             leafsEnd(t, node)),
     nodeCapacity |-> t.nodeCapacity,
     maxDepth     |-> t.maxDepth,
     autoAdjust   |-> FALSE]

\* The two depth loops at the head of the walk: the stack of parent offsets
\* after it has been pushed or popped to the depth of the new node.
RECURSIVE adjustStack(_, _, _)
adjustStack(parentOffsets, depth, nodeDepth) ==
    IF nodeDepth > depth
    THEN adjustStack(Append(parentOffsets, 0), depth + 1, nodeDepth)
    ELSE IF nodeDepth < depth
    THEN LET n == Len(parentOffsets)
         IN  adjustStack(
                 [SubSeq(parentOffsets, 1, n - 1) EXCEPT
                     ![n - 1] = @ + parentOffsets[n]],
                 depth - 1, nodeDepth)
    ELSE parentOffsets

\* The split of the new node: alloc is the new tree after allocChildren.
adjustSplit(alloc, newNode) ==
    [t      |-> distributeLeafs(
                    updateNodeChildData(alloc, newNode, TRUE, FALSE), newNode),
     change |-> childCountChangeOf(alloc, newNode, TRUE)]

\* The merge of the new node that leaves the node as it is.
adjustMergeKeep(new, newNode) == [t |-> new, change |-> 0]

\* The merge of the new node.
adjustMerge(new, newNode) ==
    [t      |-> updateNodeChildData(new, newNode, FALSE, FALSE),
     change |-> childCountChangeOf(new, newNode, FALSE)]

\* The end of one pass of the loop: c is the new tree and the change in its
\* number of nodes after the split or merge, changed is whether there was
\* one, old2 the old node after it.
adjustAdvance(t, node, s, stack, c, changed, old2) ==
    LET leafOffset == leafsBegin(t, node)
        next   == s.newNode + 1
        take   == next = NodesEnd(c.t)
                  /\ old2 + 1 # children(t, node, NumChildren(t))
    IN  [new           |-> IF take
                           THEN [c.t EXCEPT !.nodes =
                                   Append(c.t.nodes,
                                          [NodeAt(t, old2 + 1) EXCEPT
                                              !.leafIndex = @ - leafOffset])]
                           ELSE c.t,
         oldNode       |-> IF take THEN old2 + 1 ELSE old2,
         newNode       |-> next,
         parentOffsets |-> [stack EXCEPT ![Len(stack)] = @ - c.change],
         result        |-> s.result \/ changed]

\* The body of the loop after the two depth loops: stack is the stack of
\* parent offsets they leave.
adjustNewNode(t, node, s, stack) ==
    LET n1      == [s.new EXCEPT !.nodes[s.newNode + 1].parentIndex =
                                     @ + stack[Len(stack)]]
        hasKids == NodeAt(n1, s.newNode).hasChildren
        canHold == canHoldLeafs(n1, s.newNode, 0)
    IN  IF ~hasKids /\ ~canHold
        THEN adjustAdvance(t, node, s, stack,
                 adjustSplit(allocChildren(n1, s.newNode), s.newNode),
                 TRUE, s.oldNode)
        ELSE IF hasKids /\ canHold
        THEN adjustAdvance(t, node, s, stack,
                 adjustMerge(n1, s.newNode),
                 TRUE, children(t, s.oldNode, NumChildren(t)) - 1)
        ELSE adjustAdvance(t, node, s, stack,
                 [t |-> n1, change |-> 0], FALSE, s.oldNode)

\* One pass of the loop over the old and the new subtree.  s is the record
\* of the locals: new (newOrthtree), oldNode, newNode, parentOffsets,
\* result.
adjustPass(t, node, s) ==
    adjustNewNode(t, node, s,
        adjustStack(s.parentOffsets,
                    Len(s.parentOffsets) - 1 + NodeAt(t, node).depth,
                    NodeAt(s.new, s.newNode).depth))

RECURSIVE adjustWalk(_, _, _)
adjustWalk(t, node, s) ==
    IF s.newNode = NodesEnd(s.new) THEN s
    ELSE adjustWalk(t, node, adjustPass(t, node, s))

\* The amount adjust() passes to updateAncestorChildData for a change of
\* the number of nodes.
adjustAncestorChange(change) == change + 1

\* The end of adjust: s is the record the loop ended at.
adjustSplice(t, node, s) ==
    LET leafOffset == leafsBegin(t, node)
        oldSize    == 1 + descendantsSize(t, node)
        change     == Len(s.new.nodes) - oldSize
        spliced    == [t EXCEPT
                         !.nodes =
                             SubSeq(t.nodes, 1, node)
                             \o [k \in 1 .. Len(s.new.nodes) |->
                                    [s.new.nodes[k] EXCEPT
                                        !.leafIndex = @ + leafOffset]]
                             \o SubSeq(t.nodes, node + oldSize + 1,
                                       Len(t.nodes)),
                         !.leafs =
                             SubSeq(t.leafs, 1, leafOffset)
                             \o s.new.leafs
                             \o SubSeq(t.leafs,
                                       leafOffset + Len(s.new.leafs) + 1,
                                       Len(t.leafs))]
    IN  [t      |-> updateAncestorChildData(spliced, node,
                        adjustAncestorChange(change), TRUE),
         result |-> s.result]

adjust(t, node) ==
    adjustSplice(t, node,
        adjustWalk(t, node,
            [new           |-> newOrthtree(t, node),
             oldNode       |-> node,
             newNode       |-> 0,
             parentOffsets |-> << 0 >>,
             result        |-> FALSE]))

\* ------------------------------------------------------------------------
\* The range mutators.
\* ------------------------------------------------------------------------
RECURSIVE insertEach(_, _, _, _, _)
insertEach(t, hint, values, positions, k) ==
    IF k > Len(values) THEN t
    ELSE insertEach(insert(t, hint, values[k], positions[k]).t,
                    hint, values, positions, k + 1)

\* The range insert without the adjust() that ends it.
insertRangeNoAdjust(t, hint, values, positions) ==
    [insertEach([t EXCEPT !.autoAdjust = FALSE], hint, values, positions, 1)
        EXCEPT !.autoAdjust = TRUE]

insertRange(t, hint, values, positions) ==
    LET t1 == insertEach([t EXCEPT !.autoAdjust = FALSE],
                         hint, values, positions, 1)
    IN  [adjust(t1, 0).t EXCEPT !.autoAdjust = TRUE]

\* The loop of the range erase if it erased leafIt.reverse() itself.
RECURSIVE eraseEachBehind(_, _, _, _)
eraseEachBehind(t, hint, leafBegin, leafIt) ==
    IF leafIt = leafBegin - 1 THEN t
    ELSE eraseEachBehind(erase(t, hint, leafIt + 1).t,
                         hint, leafBegin, leafIt - 1)

\* From the leaf before leafEnd down to leafBegin.
RECURSIVE eraseEach(_, _, _, _)
eraseEach(t, hint, leafBegin, leafIt) ==
    IF leafIt = leafBegin - 1 THEN t
    ELSE eraseEach(erase(t, hint, (leafIt + 1) - 1).t,
                   hint, leafBegin, leafIt - 1)

eraseRange(t, hint, leafBegin, leafEnd) ==
    LET t1 == eraseEach([t EXCEPT !.autoAdjust = FALSE],
                        hint, leafBegin, leafEnd - 1)
    IN  [adjust(t1, 0).t EXCEPT !.autoAdjust = TRUE]

\* A read of processed[index].  An index at or behind the end of the vector
\* reads memory that is not part of it: pad is the number of set bits that
\* lie there.
processedAt(processed, index, pad) ==
    IF index < Len(processed) THEN processed[index + 1]
    ELSE index < Len(processed) + pad

\* The flags after one move if the moved leaf were always taken to have
\* stayed at or before processedIndex.
processedAfterInPlace(processed, processedIndex, newProcessedIndex) ==
    [processed EXCEPT ![processedIndex + 1] = TRUE]

\* The flags after one move of the leaf at processedIndex to
\* newProcessedIndex.
processedAfter(processed, processedIndex, newProcessedIndex) ==
    LET numLeafs == Len(processed)
    IN  Vector([j \in 1 .. numLeafs |->
            IF newProcessedIndex <= processedIndex
            THEN (j - 1 = processedIndex) \/ processed[j]
            ELSE IF newProcessedIndex < numLeafs
            THEN IF j - 1 = newProcessedIndex THEN TRUE
                 ELSE IF j - 1 >= processedIndex /\ j - 1 < newProcessedIndex
                 THEN processed[j + 1]
                 ELSE processed[j]
            ELSE IF j - 1 >= processedIndex /\ j - 1 < numLeafs - 1
                 THEN processed[j + 1]
                 ELSE processed[j]])

\* The skip loop advancing by two entries for each set flag.
RECURSIVE skipProcessedTwo(_, _, _)
skipProcessedTwo(processed, processedIndex, pad) ==
    IF processedAt(processed, processedIndex, pad)
    THEN skipProcessedTwo(processed, processedIndex + 2, pad)
    ELSE processedIndex

RECURSIVE skipProcessed(_, _, _)
skipProcessed(processed, processedIndex, pad) ==
    IF processedAt(processed, processedIndex, pad)
    THEN skipProcessed(processed, processedIndex + 1, pad)
    ELSE processedIndex

\* One pass of the loop of the range move.  s is the record of the locals: t,
\* processed, processedIndex, leafIndex, and two records of the accesses to
\* processed at an index that is not in [0, numLeafs): outside, whether
\* there was one, and early, whether there was one before the last pass of
\* the loop.  What the last pass reads there only advances processedIndex
\* and leafIt, which are not read again; what an earlier pass reads there
\* decides which leaf the next pass moves.  r is what move returned.
movePassEnd(s, leafBegin, pad, r) ==
    LET numLeafs == Len(s.processed)
        newProcessedIndex == r.leaf - leafBegin
        flags    == processedAfter(s.processed, s.processedIndex,
                                   newProcessedIndex)
        cursor   == skipProcessed(flags, s.processedIndex, pad)
    IN  [t              |-> r.t,
         processed      |-> flags,
         processedIndex |-> cursor,
         leafIndex      |-> s.leafIndex + 1,
         outside        |-> s.outside
                            \/ s.processedIndex >= numLeafs
                            \/ cursor >= numLeafs,
         early          |-> s.early
                            \/ s.processedIndex >= numLeafs
                            \/ (cursor >= numLeafs
                                /\ s.leafIndex + 1 < numLeafs)]

movePass(s, hint, leafBegin, positions, pad) ==
    movePassEnd(s, leafBegin, pad,
                move(s.t, hint, leafBegin + s.processedIndex,
                     positions[s.leafIndex + 1]))

RECURSIVE moveEach(_, _, _, _, _)
moveEach(s, hint, leafBegin, positions, pad) ==
    IF s.leafIndex >= Len(s.processed) THEN s
    ELSE moveEach(movePass(s, hint, leafBegin, positions, pad),
                  hint, leafBegin, positions, pad)

\* The end of the range move: s is the record the loop ended at.
moveAdjust(s) ==
    [t       |-> [adjust(s.t, 0).t EXCEPT !.autoAdjust = TRUE],
     outside |-> s.outside,
     early   |-> s.early]

moveRange(t, hint, leafBegin, leafEnd, positions, pad) ==
    moveAdjust(
        moveEach([t              |-> [t EXCEPT !.autoAdjust = FALSE],
                  processed      |-> Vector([j \in 1 .. leafEnd
                                                - leafBegin |-> FALSE]),
                  processedIndex |-> 0,
                  leafIndex      |-> 0,
                  outside        |-> FALSE,
                  early          |-> FALSE],
                 hint, leafBegin, positions, pad))

\* ------------------------------------------------------------------------
\* The bulk constructor.
\* ------------------------------------------------------------------------
\* The leaves of the node that findChild sends to the child with sibling
\* index c, in their order in the node.
newLeafsByChild(t, i, c) ==
    SelectSeq(SubSeq(t.leafs, leafsBegin(t, i) + 1, leafsEnd(t, i)),
              LAMBDA leaf :
                  NodeAt(t, findChildPoint(t, i, leaf.position)).siblingIndex
                      = c)

\* Copy the leaf vectors of the children c, c + 1, ... into the leaf vector
\* from leafIndex on and set the leaf range of each child.
RECURSIVE assignChildren(_, _, _, _, _)
assignChildren(t, src, i, c, leafIndex) ==
    IF c >= NumChildren(t) THEN t
    ELSE LET newLeafs == newLeafsByChild(src, i, c)
             child    == children(t, i, c)
             t1 == [t EXCEPT
                      !.nodes[child + 1].leafIndex = leafIndex,
                      !.nodes[child + 1].leafCount = Len(newLeafs),
                      !.leafs = SubSeq(t.leafs, 1, leafIndex)
                                \o newLeafs
                                \o SubSeq(t.leafs,
                                          leafIndex + Len(newLeafs) + 1,
                                          Len(t.leafs))]
         IN  assignChildren(t1, src, i, c + 1, leafIndex + Len(newLeafs))

RECURSIVE constructWalk(_, _)
constructWalk(t, i) ==
    IF i = NodesEnd(t) THEN t
    ELSE IF ~canHoldLeafs(t, i, 0)
    THEN LET t1 == updateNodeChildData(allocChildren(t, i), i, TRUE, TRUE)
         IN  constructWalk(assignChildren(t1, t1, i, 0, leafsBegin(t1, i)),
                           i + 1)
    ELSE constructWalk(t, i + 1)

OrthtreeBulk(position, dimensions, values, positions, nodeCapacity, maxDepth, autoAdjust) ==
    LET t0 == Orthtree(position, dimensions, nodeCapacity, maxDepth,
                       autoAdjust)
        t1 == [t0 EXCEPT
                 !.leafs = Vector([k \in 1 .. Len(values) |->
                               LeafInternal(positions[k], values[k])]),
                 !.nodes[1].leafIndex = 0,
                 !.nodes[1].leafCount = Len(values)]
    IN  constructWalk(t1, 0)

\* ------------------------------------------------------------------------
\* The state machine.
\* ------------------------------------------------------------------------
\* tree is the tree the caller works on and last the record of the last
\* call.  A caller that compares the two ways to fill a tree keeps in pairs
\* the list of the (value, position) pairs it has put into tree with insert
\* and in bulk the tree the range constructor builds from that list; for
\* the other callers pairs stays empty and bulk is "none".
VARIABLES tree, last, pairs, bulk

vars == << tree, last, pairs, bulk >>

\* The configurations the trees are constructed with:
\* position, dimensions, nodeCapacity, maxDepth.
Configs ==
    { [position |-> << 0 >>, dimensions |-> << 4 >>,
       nodeCapacity |-> 1, maxDepth |-> 2],
      [position |-> << 0, 0 >>, dimensions |-> << 2, 2 >>,
       nodeCapacity |-> 1, maxDepth |-> 1] }

Values == {0}

\* The values a caller inserts where the value is compared.
InsertValues == {0, 1}

\* The points of the root box.
RECURSIVE BoxPoints(_, _, _)
BoxPoints(position, dimensions, d) ==
    IF d > Len(position) THEN { << >> }
    ELSE { << x >> \o rest :
             x \in position[d] .. position[d] + dimensions[d] - 1,
             rest \in BoxPoints(position, dimensions, d + 1) }

InPositions(t) == BoxPoints(t.nodes[1].position, t.nodes[1].dimensions, 1)

\* Points outside the root box: below it on every axis, behind it on the
\* first axis, and with a first coordinate that is not a number.
OutPositions(t) ==
    LET p == t.nodes[1].position
        w == t.nodes[1].dimensions
    IN  { Vector([d \in 1 .. Len(p) |-> p[d] - 1]),
          Vector([d \in 1 .. Len(p) |->
                     IF d = 1 THEN p[d] + w[d] ELSE p[d]]),
          Vector([d \in 1 .. Len(p) |-> IF d = 1 THEN NaN ELSE p[d]]) }

Positions(t) == InPositions(t) \cup OutPositions(t)

\* Hints a caller passes: the root and the last node of the array.
Hints(t) == {0, Len(t.nodes) - 1}

\* Leaf handles a caller can pass: those of the tree, the end and one before
\* the beginning.
LeafHandles(t) == (0 - 1) .. Len(t.leafs)

ValidLeafHandles(t) == 0 .. Len(t.leafs) - 1

\* The (leaf, position) pairs a caller passes to move: every leaf of the tree
\* with every position, and the handles that are not leaves of the tree with
\* a position in the box and one outside it.
MoveArgs(t) ==
    (ValidLeafHandles(t) \X Positions(t))
    \cup ((LeafHandles(t) \ ValidLeafHandles(t))
          \X { t.nodes[1].position,
               Vector([d \in 1 .. Dim(t) |->
                          t.nodes[1].position[d] - 1]) })

\* What the last call was, whether it found its target (ok) and the change
\* in the number of nodes it made (dn).
Called(op, ok, before, after) ==
    [op |-> op, ok |-> ok, dn |-> Len(after.nodes) - Len(before.nodes)]

InitWith(autoAdjust) ==
    /\ \E c \in Configs :
          tree = Orthtree(c.position, c.dimensions, c.nodeCapacity,
                          c.maxDepth, autoAdjust)
    /\ last = [op |-> "init", ok |-> TRUE, dn |-> 0]
    /\ pairs = << >>
    /\ bulk = "none"

Insert ==
    \E hint \in Hints(tree), value \in Values, position \in Positions(tree) :
        /\ Len(tree.leafs) < MaxLeafs
        /\ \E r \in { insert(tree, hint, value, position) } :
               /\ tree' = r.t
               /\ last' = Called("insert", r.node # NodesEnd(r.t), tree, r.t)
               /\ UNCHANGED << pairs, bulk >>

Erase ==
    \E hint \in Hints(tree), leaf \in LeafHandles(tree) :
        \E r \in { erase(tree, hint, leaf) } :
            /\ tree' = r.t
            /\ last' = Called("erase", r.node # NodesEnd(r.t), tree, r.t)
            /\ UNCHANGED << pairs, bulk >>

Move ==
    \E hint \in Hints(tree), arg \in MoveArgs(tree) :
        \E r \in { move(tree, hint, arg[1], arg[2]) } :
            /\ tree' = r.t
            /\ last' = Called("move", r.dest # NodesEnd(r.t), tree, r.t)
            /\ UNCHANGED << pairs, bulk >>

\* The value and position lists a caller passes to a range call: at most
\* MaxRange pairs.
RECURSIVE Lists(_, _)
Lists(S, n) ==
    IF n = 0 THEN { << >> }
    ELSE { << >> } \cup { << x >> \o l : x \in S, l \in Lists(S, n - 1) }

ListsOfLen(S, n) == { l \in Lists(S, n) : Len(l) = n }

\* The positions of a range call: the lower corner of the box, the point
\* next to it on the first axis and one point outside the box.
RangePositions(t) ==
    LET p == t.nodes[1].position
    IN  { p,
          Vector([d \in 1 .. Dim(t) |-> IF d = 1 THEN p[d] + 1 ELSE p[d]]),
          Vector([d \in 1 .. Dim(t) |-> p[d] - 1]) }

InsertRange ==
    \E n \in 0 .. MaxRange :
    \E values \in ListsOfLen(Values, n),
       positions \in ListsOfLen(RangePositions(tree), n) :
        /\ Len(tree.leafs) + n <= MaxLeafs
        /\ tree' = insertRange(tree, 0, values, positions)
        /\ last' = Called("insertRange", TRUE, tree, tree')
        /\ UNCHANGED << pairs, bulk >>

EraseRange ==
    \E leafBegin \in 0 .. Len(tree.leafs), leafEnd \in 0 .. Len(tree.leafs) :
        /\ leafBegin <= leafEnd
        /\ leafEnd - leafBegin <= MaxRange
        /\ tree' = eraseRange(tree, 0, leafBegin, leafEnd)
        /\ last' = Called("eraseRange", TRUE, tree, tree')
        /\ UNCHANGED << pairs, bulk >>

\* The set bits behind the end of processed: both cases wherever a read
\* there is used by a later pass of the loop.
MoveRange ==
    \E leafBegin \in 0 .. Len(tree.leafs), leafEnd \in 0 .. Len(tree.leafs) :
        /\ leafBegin <= leafEnd
        /\ leafEnd - leafBegin <= MaxRange
        /\ \E positions \in ListsOfLen(RangePositions(tree),
                                       leafEnd - leafBegin) :
              \E r0 \in { moveRange(tree, 0, leafBegin, leafEnd,
                                     positions, 0) } :
              \E pad \in (IF r0.early THEN {0, 1} ELSE {0}) :
              \E r \in { IF pad = 0 THEN r0
                         ELSE moveRange(tree, 0, leafBegin, leafEnd,
                                        positions, pad) } :
                  /\ tree' = r.t
                  /\ last' = Called("moveRange", TRUE, tree, r.t)
                  /\ UNCHANGED << pairs, bulk >>

Adjust ==
    \E r \in { adjust(tree, 0) } :
        /\ tree' = r.t
        /\ last' = Called("adjust", r.result, tree, r.t)
        /\ UNCHANGED << pairs, bulk >>

\* The caller never switches autoAdjust: it is enabled at construction.
Init == InitWith(TRUE)

Next == Insert \/ Erase \/ Move \/ InsertRange \/ EraseRange \/ MoveRange

Spec == Init /\ [][Next]_vars

\* The caller never switches autoAdjust, whichever value it was constructed
\* with, and may call adjust() at the root.
InitAny == \E autoAdjust \in BOOLEAN : InitWith(autoAdjust)

NextAny == Next \/ Adjust

SpecAny == InitAny /\ [][NextAny]_vars

\* adjust(node) on a node below the root.
AdjustNode ==
    \E node \in 1 .. Len(tree.nodes) - 1 :
        \E r \in { adjust(tree, node) } :
            /\ tree' = r.t
            /\ last' = Called("adjustNode", r.result, tree, r.t)
            /\ UNCHANGED << pairs, bulk >>

\* A caller that constructs the tree with autoAdjust disabled, changes it
\* with the single mutators and calls adjust: on the root any number of
\* times, on a node below the root once, which ends the run.
InitManual == InitWith(FALSE)

NextManual ==
    \/ /\ last.op # "adjustNode"
       /\ (Insert \/ Erase \/ Move \/ Adjust)
    \/ /\ last.op # "adjustNode"
       /\ AdjustNode

SpecManual == InitManual /\ [][NextManual]_vars

\* The caller inserts one more pair at the root and keeps the list of the
\* pairs; bulk is the tree the range constructor builds from the list for
\* the configuration of tree.
InsertPair ==
    \E value \in InsertValues, position \in Positions(tree) :
        /\ Len(pairs) < MaxLeafs
        /\ LET r == insert(tree, 0, value, position)
               l == Append(pairs, << value, position >>)
           IN  /\ tree' = r.t
               /\ last' = Called("insert", r.node # NodesEnd(r.t), tree, r.t)
               /\ pairs' = l
               /\ bulk' = OrthtreeBulk(
                              tree.nodes[1].position,
                              tree.nodes[1].dimensions,
                              Vector([k \in 1 .. Len(l) |-> l[k][1]]),
                              Vector([k \in 1 .. Len(l) |-> l[k][2]]),
                              tree.nodeCapacity, tree.maxDepth,
                              tree.autoAdjust)

InitBulk ==
    /\ \E c \in Configs :
          /\ tree = Orthtree(c.position, c.dimensions, c.nodeCapacity,
                             c.maxDepth, TRUE)
          /\ bulk = OrthtreeBulk(c.position, c.dimensions, << >>, << >>,
                                 c.nodeCapacity, c.maxDepth, TRUE)
    /\ last = [op |-> "init", ok |-> TRUE, dn |-> 0]
    /\ pairs = << >>

NextBulk == InsertPair

SpecBulk == InitBulk /\ [][NextBulk]_vars

\* The octrees of the test suite whose boxes halve exactly down to their
\* depth ceiling: position, dimensions, nodeCapacity, maxDepth.
OctreeConfigs ==
    { [position |-> << 0, 0, 0 >>, dimensions |-> << 16, 16, 16 >>,
       nodeCapacity |-> c[1], maxDepth |-> c[2]] :
          c \in { << 3, 4 >>, << 3, 0 >>, << 3, 1 >>, << 64, 4 >> } }

\* The lists of (value, position) pairs of the test suite: one point in each
\* octant, many leaves at the same point, and a single point.
OctantPairs ==
    << << 0, << 4, 4, 4 >> >>, << 1, << 12, 4, 4 >> >>,
       << 2, << 4, 12, 4 >> >>, << 3, << 12, 12, 4 >> >>,
       << 4, << 4, 4, 12 >> >>, << 5, << 12, 4, 12 >> >>,
       << 6, << 4, 12, 12 >> >>, << 7, << 12, 12, 12 >> >> >>

SamePointPairs ==
    << << 0, << 13, 13, 13 >> >>, << 1, << 13, 13, 13 >> >>,
       << 2, << 13, 13, 13 >> >>, << 3, << 13, 13, 13 >> >>,
       << 4, << 13, 13, 13 >> >> >>

SinglePointPairs == << << 0, << 4, 8, 15 >> >> >>

leafPairsData == { OctantPairs, SamePointPairs, SinglePointPairs }

\* The pairs of list that the caller may insert next: pairs holds the pairs
\* that are in the tree, all of them from list, and the caller goes through
\* the list in its order.
NextPairs(list) ==
    IF \E j \in 1 .. Len(pairs) : \A k \in 1 .. Len(list) : pairs[j] # list[k]
    THEN { }
    ELSE { k \in 1 .. Len(list) :
             \A j \in 1 .. Len(pairs) : pairs[j][1] < list[k][1] }

\* insertTuple of one of the remaining pairs of a list, at the root.
InsertTuple ==
    \E list \in leafPairsData :
    \E k \in NextPairs(list) :
    \E r \in { insert(tree, 0, list[k][1], list[k][2]) } :
        /\ tree' = r.t
        /\ last' = Called("insert", r.node # NodesEnd(r.t), tree, r.t)
        /\ pairs' = Append(pairs, list[k])
        /\ UNCHANGED bulk

\* erase of one of the leaves of the tree, in any order; its pair leaves the
\* list of the pairs that are in the tree.
EraseTuple ==
    \E leaf \in ValidLeafHandles(tree) :
    \E j \in 1 .. Len(pairs) :
    \E r \in { erase(tree, 0, leaf) } :
        /\ pairs[j] = << LeafAt(tree, leaf).value, LeafAt(tree, leaf).position >>
        /\ tree' = r.t
        /\ last' = Called("erase", r.node # NodesEnd(r.t), tree, r.t)
        /\ pairs' = SubSeq(pairs, 1, j - 1) \o SubSeq(pairs, j + 1, Len(pairs))
        /\ UNCHANGED bulk

\* A caller that constructs an empty octree with autoAdjust enabled, inserts
\* pairs of one of the lists one at a time and erases leaves one at a time.
InitOctree ==
    /\ \E c \in OctreeConfigs :
          tree = Orthtree(c.position, c.dimensions, c.nodeCapacity,
                          c.maxDepth, TRUE)
    /\ last = [op |-> "init", ok |-> TRUE, dn |-> 0]
    /\ pairs = << >>
    /\ bulk = "none"

NextOctree == InsertTuple \/ EraseTuple

SpecOctree == InitOctree /\ [][NextOctree]_vars

\* ------------------------------------------------------------------------
\* Properties.
\* ------------------------------------------------------------------------
NodeIndices(t) == 0 .. Len(t.nodes) - 1

InBox(t, i, point) ==
    \A d \in 1 .. Dim(t) :
        /\ point[d] # NaN
        /\ point[d] >= NodeAt(t, i).position[d]
        /\ point[d] - NodeAt(t, i).position[d] < NodeAt(t, i).dimensions[d]

\* C1: with autoAdjust enabled throughout, after every single or range
\* insert, erase or move a node without children holds at most nodeCapacity
\* leaves unless its depth is maxDepth.
TerminalWithinCapacity(t) ==
    \A i \in NodeIndices(t) :
        ~NodeAt(t, i).hasChildren =>
            \/ NodeAt(t, i).leafCount <= t.nodeCapacity
            \/ NodeAt(t, i).depth = t.maxDepth

C1_TerminalWithinCapacity == TerminalWithinCapacity(tree)

\* A node at the depth ceiling holds more leaves than the capacity.
C1_Witness ==
    /\ last.op \in {"insert", "move", "insertRange", "moveRange"}
    /\ \E i \in NodeIndices(tree) :
          /\ ~NodeAt(tree, i).hasChildren
          /\ NodeAt(tree, i).leafCount > tree.nodeCapacity
          /\ NodeAt(tree, i).depth = tree.maxDepth

\* C2: with autoAdjust enabled throughout, after every single or range
\* insert, erase or move a node that has children holds more than
\* nodeCapacity leaves.
ParentOverCapacity(t) ==
    \A i \in NodeIndices(t) :
        NodeAt(t, i).hasChildren => NodeAt(t, i).leafCount > t.nodeCapacity

C2_ParentOverCapacity == ParentOverCapacity(tree)

\* A move merged on the source side and the tree still has a parent.
C2_Witness ==
    /\ last.op = "move"
    /\ last.dn < 0
    /\ \E i \in NodeIndices(tree) : NodeAt(tree, i).hasChildren

\* C3: the root's leaf range is the whole leaf array, and the leaf range of a
\* node with children is the concatenation, in child order, of the leaf
\* ranges of its children.
LeafRangesConcatenate(t) ==
    /\ NodeAt(t, 0).leafIndex = 0
    /\ NodeAt(t, 0).leafCount = Len(t.leafs)
    /\ \A i \in NodeIndices(t) :
          NodeAt(t, i).hasChildren =>
              /\ \A k \in 0 .. NumChildren(t) - 1 :
                    children(t, i, k) \in NodeIndices(t)
              /\ leafsBegin(t, children(t, i, 0)) = leafsBegin(t, i)
              /\ \A k \in 0 .. NumChildren(t) - 2 :
                    leafsBegin(t, children(t, i, k + 1))
                        = leafsEnd(t, children(t, i, k))
              /\ leafsEnd(t, children(t, i, NumChildren(t) - 1))
                     = leafsEnd(t, i)

C3_LeafRangesConcatenate == LeafRangesConcatenate(tree)

\* A node that is neither the first nor the last parent of the array has
\* its leaves split over its children.
C3_Witness ==
    /\ last.op # "init"
    /\ Len(tree.leafs) = MaxLeafs
    /\ \E i \in NodeIndices(tree) :
          /\ i > 0
          /\ NodeAt(tree, i).hasChildren
          /\ NodeAt(tree, i).leafCount > 0

\* C4: every leaf in the leaf range of a node without children lies in the
\* box of that node by the half-open test.
LeafsInBox(t) ==
    \A i \in NodeIndices(t) :
        ~NodeAt(t, i).hasChildren =>
            \A j \in leafsBegin(t, i) .. leafsEnd(t, i) - 1 :
                /\ j >= 0 /\ j < Len(t.leafs)
                /\ InBox(t, i, LeafAt(t, j).position)

C4_LeafsInBox == LeafsInBox(tree)

\* A move put a leaf into a node below the root.
C4_Witness ==
    /\ last.op = "move"
    /\ last.ok
    /\ \E i \in NodeIndices(tree) :
          i > 0 /\ ~NodeAt(tree, i).hasChildren /\ NodeAt(tree, i).leafCount > 0

\* C5: child k of a node resolves back to the node through parentOffset, has
\* sibling index k and the depth of the node plus one; the root has depth 0.
ParentChildResolve(t) ==
    /\ NodeAt(t, 0).depth = 0
    /\ ~hasParent(0)
    /\ \A i \in NodeIndices(t) :
          NodeAt(t, i).hasChildren =>
              \A k \in 0 .. NumChildren(t) - 1 :
                  LET c == children(t, i, k)
                  IN  /\ c \in NodeIndices(t)
                      /\ c + NodeAt(t, c).parentIndex = i
                      /\ NodeAt(t, c).siblingIndex = k
                      /\ NodeAt(t, c).depth = NodeAt(t, i).depth + 1

C5_ParentChildResolve == ParentChildResolve(tree)

\* A split or merge happened in front of a node, which shifted it in the
\* array: its parent is further away than it was when the node was
\* allocated.
C5_Witness ==
    /\ last.dn # 0
    /\ \E i \in NodeIndices(tree) :
          /\ hasParent(i)
          /\ NodeAt(tree, i).parentIndex
                 < 0 - (NodeAt(tree, i).siblingIndex + 1)

\* The multiset of the leaves of a leaf array: how often each leaf occurs.
LeafBag(leafs) ==
    [l \in { leafs[j] : j \in 1 .. Len(leafs) } |->
        Cardinality({ j \in 1 .. Len(leafs) : leafs[j] = l })]

\* C6: no operation loses, duplicates or alters a leaf other than the one
\* it is asked to change.  From every reachable tree: insert adds the
\* inserted pair to the multiset of leaves, erase takes the erased leaf out
\* of it, move changes only the position of the moved leaf, and a split, a
\* merge and adjust leave it as it is.
C6_LeafMultiset ==
    /\ \A hint \in Hints(tree), value \in InsertValues,
          position \in InPositions(tree) :
           LET r == insert(tree, hint, value, position)
           IN  /\ r.node # NodesEnd(r.t)
               /\ LeafBag(r.t.leafs)
                      = LeafBag(Append(tree.leafs,
                                       LeafInternal(position, value)))
    /\ \A hint \in Hints(tree), leaf \in ValidLeafHandles(tree) :
           LET r == erase(tree, hint, leaf)
           IN  /\ r.node # NodesEnd(r.t)
               /\ LeafBag(Append(r.t.leafs, LeafAt(tree, leaf)))
                      = LeafBag(tree.leafs)
    /\ \A hint \in Hints(tree), leaf \in ValidLeafHandles(tree),
          position \in InPositions(tree) :
           LET r == move(tree, hint, leaf, position)
           IN  /\ r.dest # NodesEnd(r.t)
               /\ LeafBag(r.t.leafs)
                      = LeafBag([tree.leafs EXCEPT
                                    ![leaf + 1].position = position])
    /\ LeafBag(adjust(tree, 0).t.leafs) = LeafBag(tree.leafs)
    /\ \A i \in NodeIndices(tree) :
           IF NodeAt(tree, i).hasChildren
           THEN (\A k \in 0 .. NumChildren(tree) - 1 :
                    ~NodeAt(tree, children(tree, i, k)).hasChildren)
                => LeafBag(destroyChildren(tree, i).leafs)
                      = LeafBag(tree.leafs)
           ELSE NodeAt(tree, i).depth < tree.maxDepth
                => LeafBag(createChildren(tree, i).leafs)
                      = LeafBag(tree.leafs)
    /\ \A leafBegin \in 0 .. Len(tree.leafs),
          leafEnd \in 0 .. Len(tree.leafs) :
           leafBegin <= leafEnd =>
               LeafBag(eraseRange(tree, 0, leafBegin, leafEnd).leafs
                       \o SubSeq(tree.leafs, leafBegin + 1, leafEnd))
                   = LeafBag(tree.leafs)

\* The tree holds two leaves at different positions below a root with
\* children, and the last call changed the number of nodes.
C6_Witness ==
    /\ last.op \in {"insert", "erase", "move"}
    /\ last.ok
    /\ last.dn # 0
    /\ NodeAt(tree, 0).hasChildren
    /\ \E j \in ValidLeafHandles(tree), k \in ValidLeafHandles(tree) :
          LeafAt(tree, j).position # LeafAt(tree, k).position

\* The points around the root box that are not in it, and the points with
\* one coordinate that is not a number.
OutsidePoints(t) ==
    LET p == t.nodes[1].position
        w == t.nodes[1].dimensions
        around == BoxPoints(Vector([d \in 1 .. Len(p) |-> p[d] - 1]),
                            Vector([d \in 1 .. Len(p) |-> w[d] + 2]), 1)
    IN  { q \in around : ~InBox(t, 0, q) }
        \cup { [q EXCEPT ![d] = NaN] : q \in InPositions(t),
                                       d \in 1 .. Len(p) }

\* C7: insert with a position outside the root box on any axis, or with a
\* coordinate that is not a number, returns (nodes end, leafs end) and
\* leaves the node array and the leaf array as they were.
C7_InsertOutsideNoChange ==
    \A hint \in NodeIndices(tree), value \in InsertValues,
       position \in OutsidePoints(tree) :
        LET r == insert(tree, hint, value, position)
        IN  /\ r.node = NodesEnd(tree)
            /\ r.leaf = LeafsEnd(tree)
            /\ r.t.nodes = tree.nodes
            /\ r.t.leafs = tree.leafs

\* An insert was turned down on a tree that holds leaves below a root with
\* children.
C7_Witness ==
    /\ last.op = "insert"
    /\ ~last.ok
    /\ Len(tree.leafs) > 0
    /\ NodeAt(tree, 0).hasChildren

\* The leaf handles that name no leaf of the tree: before the first leaf,
\* the end and behind the end.
InvalidLeafHandles(t) == {0 - 1, Len(t.leafs), Len(t.leafs) + 1}

\* C8: erase with a leaf handle whose index is not in [0, number of
\* leaves), and move with such a handle or with a position outside the
\* root box, return end handles in every component and change neither the
\* node array nor the leaf array, the stored position of the leaf included.
C8_InvalidNoChange ==
    /\ \A hint \in NodeIndices(tree), leaf \in InvalidLeafHandles(tree) :
           LET r == erase(tree, hint, leaf)
           IN  /\ r.node = NodesEnd(tree)
               /\ r.leaf = LeafsEnd(tree)
               /\ r.t.nodes = tree.nodes
               /\ r.t.leafs = tree.leafs
    /\ \A hint \in NodeIndices(tree) :
       \A arg \in (InvalidLeafHandles(tree)
                      \X (InPositions(tree) \cup OutsidePoints(tree)))
                  \cup (ValidLeafHandles(tree) \X OutsidePoints(tree)) :
           LET r == move(tree, hint, arg[1], arg[2])
           IN  /\ r.source = NodesEnd(tree)
               /\ r.dest = NodesEnd(tree)
               /\ r.leaf = LeafsEnd(tree)
               /\ r.t.nodes = tree.nodes
               /\ r.t.leafs = tree.leafs

\* An erase or a move was turned down on a tree that holds leaves below a
\* root with children.
C8_Witness ==
    /\ last.op \in {"erase", "move"}
    /\ ~last.ok
    /\ Len(tree.leafs) > 0
    /\ NodeAt(tree, 0).hasChildren

\* The nodes of a subtree lie next to each other: the first child of a node
\* follows the node, each further child follows the last descendant of the
\* child before it, and the sentinel, the last entry of childIndices, is the
\* offset to the node behind the last descendant.
SubtreesContiguous(t) ==
    /\ children(t, 0, NumChildren(t)) = NodesEnd(t)
    /\ \A i \in NodeIndices(t) :
          IF NodeAt(t, i).hasChildren
          THEN /\ children(t, i, 0) = i + 1
               /\ \A k \in 0 .. NumChildren(t) - 1 :
                     /\ children(t, i, k) \in NodeIndices(t)
                     /\ children(t, i, k + 1)
                            = children(t, children(t, i, k), NumChildren(t))
          ELSE children(t, i, NumChildren(t)) = i + 1

\* C9: adjust(node) on a node below the root of a tree changed with
\* autoAdjust disabled leaves parent / child resolution, subtree contiguity
\* and leaf-range concatenation in place for the whole tree.
C9_AdjustNodeKeepsStructure ==
    last.op = "adjustNode" =>
        /\ ParentChildResolve(tree)
        /\ SubtreesContiguous(tree)
        /\ LeafRangesConcatenate(tree)

\* adjust() on the root leaves the same three properties in place.
AdjustRootKeepsStructure ==
    last.op = "adjust" =>
        /\ ParentChildResolve(tree)
        /\ SubtreesContiguous(tree)
        /\ LeafRangesConcatenate(tree)

\* C10: the tree the range constructor builds from a list of pairs, pairs
\* with a position outside the root box included, holds the same multiset
\* of leaves as the tree the pairs were inserted into one at a time, and is
\* structurally valid: every leaf is in the box of its terminal node, and
\* the capacity and depth rules hold.
BulkEquivalent ==
    /\ LeafBag(bulk.leafs) = LeafBag(tree.leafs)
    /\ LeafsInBox(bulk)
    /\ TerminalWithinCapacity(bulk)
    /\ ParentOverCapacity(bulk)
    /\ ParentChildResolve(bulk)
    /\ SubtreesContiguous(bulk)
    /\ LeafRangesConcatenate(bulk)

C10_BulkEquivalent == BulkEquivalent

\* The same for the lists all of whose positions are in the root box.
BulkEquivalentInBox ==
    (\A k \in 1 .. Len(pairs) : InBox(tree, 0, pairs[k][2]))
        => BulkEquivalent

\* The balance rule for the depth: a node with children is above maxDepth.
ParentBelowMaxDepth(t) ==
    \A i \in NodeIndices(t) :
        NodeAt(t, i).hasChildren => NodeAt(t, i).depth < t.maxDepth

\* The balance rules: capacity and depth.
Balanced(t) ==
    /\ TerminalWithinCapacity(t)
    /\ ParentOverCapacity(t)
    /\ ParentBelowMaxDepth(t)

\* Structural validity: the offsets resolve, the subtrees and the leaf
\* ranges are contiguous, every leaf is in the box of its terminal node and
\* the balance rules hold.
StructurallyValid(t) ==
    /\ ParentChildResolve(t)
    /\ SubtreesContiguous(t)
    /\ LeafRangesConcatenate(t)
    /\ LeafsInBox(t)
    /\ Balanced(t)

\* The positions of the lists the range claims are checked with: the points
\* of the root box and one point outside it.
ListPositions(t) ==
    InPositions(t)
    \cup { Vector([d \in 1 .. Dim(t) |-> t.nodes[1].position[d] - 1]) }

\* C11: from every tree reached with autoAdjust enabled, the range insert
\* of a list of pairs gives a structurally valid tree whose multiset of
\* leaves is that of the tree the pairs are inserted into one at a time, in
\* the same order, with autoAdjust enabled.
C11_InsertRangeEquivalent ==
    \A hint \in Hints(tree), n \in 0 .. MaxRange :
    \A values \in ListsOfLen(InsertValues, n),
       positions \in ListsOfLen(ListPositions(tree), n) :
        LET r == insertRange(tree, hint, values, positions)
            q == insertEach(tree, hint, values, positions, 1)
        IN  /\ StructurallyValid(r)
            /\ StructurallyValid(q)
            /\ r.autoAdjust
            /\ LeafBag(r.leafs) = LeafBag(q.leafs)

\* A range insert split a node and the tree holds MaxLeafs leaves.
C11_Witness ==
    /\ last.op = "insertRange"
    /\ last.dn > 0
    /\ Len(tree.leafs) = MaxLeafs

\* The tree with the leaf at index j given the value j + 1: the values are
\* not read by the tree, they tell the leaves apart.
Numbered(t) ==
    [t EXCEPT !.leafs = Vector([j \in 1 .. Len(t.leafs) |->
                            [t.leafs[j] EXCEPT !.value = j]])]

\* The leaves of a leaf array that have the value.
LeafsOfValue(leafs, value) ==
    { j \in 1 .. Len(leafs) : leafs[j].value = value }

\* What the range move of [leafBegin, leafEnd) with the positions is to
\* make of the numbered tree t: r is the tree it made.
MovedPairwise(t, r, leafBegin, leafEnd, positions) ==
    /\ Len(r.leafs) = Len(t.leafs)
    /\ \A j \in 1 .. Len(t.leafs) :
          /\ Cardinality(LeafsOfValue(r.leafs, j)) = 1
          /\ \A k \in LeafsOfValue(r.leafs, j) :
                r.leafs[k].position
                    = IF j - 1 >= leafBegin /\ j - 1 < leafEnd
                      THEN positions[j - leafBegin]
                      ELSE t.leafs[j].position

C13_EraseRangeExact ==
    \A hint \in Hints(tree) :
    \A leafBegin \in 0 .. Len(tree.leafs), leafEnd \in 0 .. Len(tree.leafs) :
        leafBegin <= leafEnd =>
            LET t == Numbered(tree)
                r == eraseRange(t, hint, leafBegin, leafEnd)
            IN  /\ Len(r.leafs) = Len(t.leafs) - (leafEnd - leafBegin)
                /\ LeafBag(r.leafs)
                       = LeafBag(SubSeq(t.leafs, 1, leafBegin)
                                 \o SubSeq(t.leafs, leafEnd + 1,
                                           Len(t.leafs)))
                /\ StructurallyValid(r)
                /\ r.autoAdjust

\* A range erase merged nodes and left a leaf in the tree.
C13_Witness ==
    /\ last.op = "eraseRange"
    /\ last.dn < 0
    /\ Len(tree.leafs) > 0

\* C14: from every tree reached with autoAdjust disabled by single inserts,
\* erases and moves and calls of adjust() at the root, one call of adjust()
\* at the root leaves the balance rules in place at every node and the
\* multiset of the leaves as it was.
C14_AdjustRestoresBalance ==
    last.op # "adjustNode" =>
        /\ Balanced(adjust(tree, 0).t)
        /\ LeafBag(adjust(tree, 0).t.leafs) = LeafBag(tree.leafs)

\* One call of adjust() at the root split more than one node.
C14_Witness ==
    /\ last.op = "adjust"
    /\ last.ok
    /\ last.dn > NumChildren(tree)

\* What adjust(node) is to do on a tree that needs no adjustment: return
\* false and leave the node array and the leaf array as they are.
AdjustNoChange(t, node) ==
    /\ ~adjust(t, node).result
    /\ adjust(t, node).t.nodes = t.nodes
    /\ adjust(t, node).t.leafs = t.leafs

\* C15: on every tree reached with autoAdjust enabled, adjust(node) returns
\* false and changes neither the node array nor the leaf array, for every
\* node of the tree.
C15_AdjustAutoNoChange ==
    \A node \in NodeIndices(tree) : AdjustNoChange(tree, node)

\* The same for adjust() at the root only.
AdjustRootAutoNoChange == AdjustNoChange(tree, 0)

\* adjust() at the root of a tree reached with autoAdjust disabled returns
\* true exactly when it changes the node array.
AdjustRootResultExact ==
    last.op # "adjustNode" =>
        (adjust(tree, 0).result <=> adjust(tree, 0).t.nodes # tree.nodes)

\* The points a caller looks up: the points of the root box, the points
\* around it and the points with a coordinate that is not a number.
FindPoints(t) == InPositions(t) \cup OutsidePoints(t)

\* C16: with any node of the tree as the hint, find(hint, point) returns
\* the one node without children whose box contains the point if the root
\* box contains the point, and nodes().end() if it does not.
C16_FindPointExact ==
    \A hint \in NodeIndices(tree), point \in FindPoints(tree) :
        LET found == findPoint(tree, hint, point)
        IN  IF InBox(tree, 0, point)
            THEN /\ found \in NodeIndices(tree)
                 /\ \A i \in NodeIndices(tree) :
                       (~NodeAt(tree, i).hasChildren
                        /\ InBox(tree, i, point)) <=> i = found
            ELSE found = NodesEnd(tree)

\* The tree has a node two levels below the root, and a lookup from a hint
\* whose box does not contain the point ends there.
C16_Witness ==
    \E hint \in NodeIndices(tree), point \in InPositions(tree) :
        /\ ~InBox(tree, hint, point)
        /\ findPoint(tree, hint, point) \in NodeIndices(tree)
        /\ NodeAt(tree, findPoint(tree, hint, point)).depth = 2

\* The leaf handles a caller looks up: those of the tree and those that
\* name no leaf of it.
FindLeafs(t) == ValidLeafHandles(t) \cup InvalidLeafHandles(t)

\* C17: on every tree, find(hint, leaf), insert, erase and move give with
\* every node of the tree as the hint what they give with the root as the
\* hint: the same handles, the same node array and the same leaf array.
C17_HintIndependent ==
    \A hint \in NodeIndices(tree) :
        /\ \A leaf \in FindLeafs(tree) :
              /\ findLeaf(tree, hint, leaf) = findLeaf(tree, 0, leaf)
              /\ erase(tree, hint, leaf) = erase(tree, 0, leaf)
              /\ \A position \in FindPoints(tree) :
                    move(tree, hint, leaf, position)
                        = move(tree, 0, leaf, position)
        /\ \A value \in Values, position \in FindPoints(tree) :
              insert(tree, hint, value, position)
                  = insert(tree, 0, value, position)

\* The tree has a leaf and a node below the root that does not hold it:
\* with that node as the hint the lookup goes up before it goes down.
C17_Witness ==
    \E hint \in NodeIndices(tree), leaf \in ValidLeafHandles(tree) :
        /\ hasParent(hint)
        /\ ~containsLeaf(tree, hint, leaf)
        /\ findLeaf(tree, hint, leaf) \in NodeIndices(tree)
        /\ hasParent(findLeaf(tree, hint, leaf))

\* C18: from every tree reached with autoAdjust enabled, an insert at a
\* point of the root box followed by the erase of the leaf it returned
\* leaves the node array as it was before the insert, field by field, and
\* as many leaves; so also where the insert split more than one node.
C18_InsertEraseRestores ==
    \A hint \in Hints(tree), value \in InsertValues,
       position \in InPositions(tree) :
        LET r == insert(tree, hint, value, position)
        IN  \A eraseHint \in {0, r.node} :
                LET e == erase(r.t, eraseHint, r.leaf)
                IN  /\ e.node # NodesEnd(e.t)
                    /\ e.t.nodes = tree.nodes
                    /\ Len(e.t.leafs) = Len(tree.leafs)
                    /\ LeafBag(e.t.leafs) = LeafBag(tree.leafs)

\* The tree has a point of the root box at which an insert splits two
\* nodes, one below the other.
C18_Witness ==
    /\ last.op # "init"
    /\ \E position \in InPositions(tree) :
          Len(insert(tree, 0, 0, position).t.nodes)
              >= Len(tree.nodes) + 2 * NumChildren(tree)

\* The box, the depth and the index of a node.
NodePlace(t, i) ==
    [index      |-> i,
     position   |-> NodeAt(t, i).position,
     dimensions |-> NodeAt(t, i).dimensions,
     depth      |-> NodeAt(t, i).depth]

\* C19: from every tree reached with autoAdjust enabled, the move of a leaf
\* to a point of the root box followed by the move of the returned leaf
\* back to the position it had leaves the leaf in a node with the box, the
\* depth and the index of the node that held it before.
C19_MoveBackRestoresOwner ==
    \A hint \in Hints(tree), leaf \in ValidLeafHandles(tree),
       position \in InPositions(tree) :
        LET there == move(tree, hint, leaf, position)
        IN  \A backHint \in Hints(there.t) :
                LET back == move(there.t, backHint, there.leaf,
                                 LeafAt(tree, leaf).position)
                IN  /\ back.dest \in NodeIndices(back.t)
                    /\ ~NodeAt(back.t, back.dest).hasChildren
                    /\ findLeaf(back.t, 0, back.leaf) = back.dest
                    /\ NodePlace(back.t, back.dest)
                           = NodePlace(tree, findLeaf(tree, 0, leaf))

\* A move was made, and the tree has a leaf and a point of the root box
\* such that the move there changes the number of nodes in front of the
\* node that holds the leaf.
C19_Witness ==
    /\ last.op = "move"
    /\ \E leaf \in ValidLeafHandles(tree), position \in InPositions(tree) :
          /\ move(tree, 0, leaf, position).dest < findLeaf(tree, 0, leaf)
          /\ Len(move(tree, 0, leaf, position).t.nodes) # Len(tree.nodes)

\* The node array without what a change of the leaves alone changes: every
\* field of every node but leafIndex and leafCount.
NodeFrame(t) ==
    Vector([k \in 1 .. Len(t.nodes) |->
               [t.nodes[k] EXCEPT !.leafIndex = 0, !.leafCount = 0]])

\* C20: on every tree reached with autoAdjust disabled, insert, erase and
\* move leave the number of nodes and, in every node, the box, the depth,
\* hasChildren, the child offsets, the parent offset and the sibling index
\* as they are.
C20_ManualKeepsNodes ==
    last.op # "adjustNode" =>
        \A hint \in Hints(tree) :
            /\ \A value \in Values, position \in FindPoints(tree) :
                  NodeFrame(insert(tree, hint, value, position).t)
                      = NodeFrame(tree)
            /\ \A leaf \in FindLeafs(tree) :
                  /\ NodeFrame(erase(tree, hint, leaf).t) = NodeFrame(tree)
                  /\ \A position \in FindPoints(tree) :
                        NodeFrame(move(tree, hint, leaf, position).t)
                            = NodeFrame(tree)

\* An insert or a move with autoAdjust disabled left a node without
\* children over its capacity and above maxDepth.
C20_Witness ==
    /\ ~tree.autoAdjust
    /\ last.op \in {"insert", "move"}
    /\ last.ok
    /\ ~TerminalWithinCapacity(tree)

\* The values of the leaves of the node in the order of its leaf range.
ValuesIn(t, i) ==
    [j \in 1 .. leafsSize(t, i) |-> LeafAt(t, leafsBegin(t, i) + j - 1).value]

\* A sequence of numbers that goes up from each element to the next.
Ascending(seq) ==
    \A j \in 1 .. Len(seq) - 1 : seq[j] < seq[j + 1]

\* C21: on every tree, an insert at a point of the root box returns a node
\* without children whose box contains the point and the last index of the
\* leaf range of that node; the leaf there has the value and the position
\* given, and the leaves before it in the node are in the order they had in
\* the leaf array before the insert.
C21_InsertReturns ==
    \A hint \in Hints(tree), position \in InPositions(tree) :
        LET r == insert(Numbered(tree), hint, 0, position)
        IN  /\ r.node \in NodeIndices(r.t)
            /\ ~NodeAt(r.t, r.node).hasChildren
            /\ InBox(r.t, r.node, position)
            /\ r.leaf = leafsEnd(r.t, r.node) - 1
            /\ r.leaf \in ValidLeafHandles(r.t)
            /\ LeafAt(r.t, r.leaf) = LeafInternal(position, 0)
            /\ Ascending(SubSeq(ValuesIn(r.t, r.node), 1,
                                leafsSize(r.t, r.node) - 1))

\* An insert put a leaf behind another leaf of a node below the root.
C21_Witness ==
    /\ last.op = "insert"
    /\ last.ok
    /\ \E i \in NodeIndices(tree) :
          /\ hasParent(i)
          /\ ~NodeAt(tree, i).hasChildren
          /\ NodeAt(tree, i).leafCount > 1

\* C22: on every tree, the erase of a leaf of the tree returns the index
\* the leaf had, which names the leaf that followed it or is leafs().end(),
\* and a node that has no children after the call, held the leaf in its
\* leaf range before it and is the node that held the leaf directly or an
\* ancestor of it that the call merged.
C22_EraseReturns ==
    \A hint \in Hints(tree), leaf \in ValidLeafHandles(tree) :
        LET t     == Numbered(tree)
            r     == erase(t, hint, leaf)
            owner == findLeaf(t, 0, leaf)
        IN  /\ r.leaf = leaf
            /\ IF leaf = Len(t.leafs) - 1
               THEN r.leaf = LeafsEnd(r.t)
               ELSE LeafAt(r.t, r.leaf) = LeafAt(t, leaf + 1)
            /\ r.node \in NodeIndices(r.t)
            /\ ~NodeAt(r.t, r.node).hasChildren
            /\ containsLeaf(t, r.node, leaf)
            /\ containsNode(t, r.node, owner)
            /\ r.node # owner =>
                   /\ t.autoAdjust
                   /\ NodeAt(t, r.node).hasChildren
                   /\ Len(r.t.nodes) < Len(t.nodes)
            /\ r.leaf >= leafsBegin(r.t, r.node)
            /\ r.leaf <= leafsEnd(r.t, r.node)

\* An erase merged two nodes, one above the other, and left a leaf.
C22_Witness ==
    /\ last.op = "erase"
    /\ last.ok
    /\ last.dn <= 0 - 2 * NumChildren(tree)
    /\ Len(tree.leafs) > 0

\* C23: on every tree reached with autoAdjust enabled, the move of a leaf
\* to a point of the root box returns, as indices of the arrays after the
\* call, a destination without children whose box contains the point and
\* whose leaf range contains the returned leaf, the returned leaf being
\* the moved one with its value and the new position, and a source without
\* children whose box contains the position the leaf had.
C23_MoveReturns ==
    \A hint \in Hints(tree), leaf \in ValidLeafHandles(tree),
       position \in InPositions(tree) :
        LET t == Numbered(tree)
            r == move(t, hint, leaf, position)
        IN  /\ r.dest \in NodeIndices(r.t)
            /\ ~NodeAt(r.t, r.dest).hasChildren
            /\ InBox(r.t, r.dest, position)
            /\ containsLeaf(r.t, r.dest, r.leaf)
            /\ r.leaf \in ValidLeafHandles(r.t)
            /\ LeafAt(r.t, r.leaf)
                   = LeafInternal(position, LeafAt(t, leaf).value)
            /\ r.source \in NodeIndices(r.t)
            /\ ~NodeAt(r.t, r.source).hasChildren
            /\ InBox(r.t, r.source, LeafAt(t, leaf).position)

\* A move was made, and the tree has a leaf and a point of the root box
\* such that the move there merges in front of the destination: the
\* destination returned is not at the index it was found at.
C23_Witness ==
    /\ last.op = "move"
    /\ \E leaf \in ValidLeafHandles(tree), position \in InPositions(tree) :
          move(tree, 0, leaf, position).dest < findPoint(tree, 0, position)

\* The octree of the claims about the test lists: root box (0,0,0) +
\* (16,16,16), capacity 3, depth ceiling 4.
IsOctree34(t) ==
    /\ t.nodes[1].position = << 0, 0, 0 >>
    /\ t.nodes[1].dimensions = << 16, 16, 16 >>
    /\ t.nodeCapacity = 3
    /\ t.maxDepth = 4

\* C24: in the octree with root box (0,0,0) + (16,16,16), capacity 3 and
\* depth ceiling 4, once the eight points with one point in each octant have
\* been inserted one at a time the tree has exactly 9 nodes: the root with
\* 8 children that have no children and hold exactly 1 leaf each, and each
\* of the 8 pairs is in the tree once.
C24_OctantsNineNodes ==
    (IsOctree34(tree) /\ pairs = OctantPairs) =>
        /\ Len(tree.nodes) = 9
        /\ NodeAt(tree, 0).hasChildren
        /\ \A k \in 0 .. 7 :
              /\ children(tree, 0, k) = k + 1
              /\ ~NodeAt(tree, k + 1).hasChildren
              /\ NodeAt(tree, k + 1).leafCount = 1
        /\ Len(tree.leafs) = 8
        /\ \A k \in 1 .. 8 :
              Cardinality({ j \in 1 .. Len(tree.leafs) :
                              tree.leafs[j]
                                  = LeafInternal(OctantPairs[k][2],
                                                 OctantPairs[k][1]) }) = 1

\* The eighth point has just been inserted into the octree.
C24_Witness ==
    /\ IsOctree34(tree)
    /\ pairs = OctantPairs
    /\ last.op = "insert"
    /\ last.ok

\* C25: in the octree with root box (0,0,0) + (16,16,16), capacity 3 and
\* depth ceiling 4, once more than nodeCapacity leaves have been inserted at
\* the one point (13,13,13) the tree is split down to the depth ceiling
\* along the path of the nodes that contain the point and nowhere else, and
\* all the leaves are in one node without children at that depth, which
\* holds more than nodeCapacity leaves.
C25_SamePointAtMaxDepth ==
    (/\ IsOctree34(tree)
     /\ Len(pairs) > tree.nodeCapacity
     /\ \A j \in 1 .. Len(pairs) : pairs[j][2] = << 13, 13, 13 >>) =>
        /\ Len(tree.nodes) = 1 + tree.maxDepth * NumChildren(tree)
        /\ \A i \in NodeIndices(tree) :
              NodeAt(tree, i).hasChildren
                  <=> (/\ InBox(tree, i, << 13, 13, 13 >>)
                       /\ NodeAt(tree, i).depth < tree.maxDepth)
        /\ \E i \in NodeIndices(tree) :
              /\ ~NodeAt(tree, i).hasChildren
              /\ NodeAt(tree, i).depth = tree.maxDepth
              /\ InBox(tree, i, << 13, 13, 13 >>)
              /\ NodeAt(tree, i).leafCount = Len(pairs)
              /\ NodeAt(tree, i).leafCount > tree.nodeCapacity
              /\ Len(tree.leafs) = Len(pairs)

\* The fifth leaf at (13,13,13) has just been inserted into the octree.
C25_Witness ==
    /\ IsOctree34(tree)
    /\ pairs = SamePointPairs
    /\ last.op = "insert"
    /\ last.ok

\* C26: on a tree built by single inserts with autoAdjust enabled, whose
\* leaves are erased one at a time in any order, the tree is structurally
\* valid after every erase, and once the last leaf is erased the node array
\* is a single root node that has no children and leafCount 0.
C26_EraseAllToRoot ==
    (last.op = "erase" /\ last.ok) =>
        /\ StructurallyValid(tree)
        /\ Len(tree.leafs) = Len(pairs)
        /\ Len(tree.leafs) = 0 =>
              /\ Len(tree.nodes) = 1
              /\ ~NodeAt(tree, 0).hasChildren
              /\ NodeAt(tree, 0).leafCount = 0

\* The last leaf of a tree that had been split has just been erased.
C26_Witness ==
    /\ last.op = "erase"
    /\ last.ok
    /\ Len(tree.leafs) = 0
    /\ Len(tree.nodes) = 1
    /\ tree.nodeCapacity = 3
    /\ tree.maxDepth = 4

\* An erase merged the four levels of a tree split down to the depth
\* ceiling.
C26_WitnessMerge ==
    /\ last.op = "erase"
    /\ last.dn = 0 - 4 * NumChildren(tree)

\* The index behind the subtree of the node at index i when the array is
\* read in depth-first pre-order from the hasChildren flags alone: behind a
\* node without children comes the next subtree, behind a node with children
\* come the subtrees of its 2^Dim children one after the other.
RECURSIVE PreOrderEnd(_, _)
RECURSIVE PreOrderEndOfChildren(_, _, _)
PreOrderEnd(t, i) ==
    IF i >= Len(t.nodes) THEN i + 1
    ELSE IF NodeAt(t, i).hasChildren
    THEN PreOrderEndOfChildren(t, i + 1, NumChildren(t))
    ELSE i + 1

PreOrderEndOfChildren(t, i, n) ==
    IF n = 0 THEN i
    ELSE PreOrderEndOfChildren(t, PreOrderEnd(t, i), n - 1)

\* The number of nodes of the subtree of the node at index i, itself
\* included.
SubtreeSize(t, i) == PreOrderEnd(t, i) - i

\* The child offsets of every node describe the pre-order array.
PreOrderOffsets(t) ==
    /\ NodeAt(t, 0).childIndices[NumChildren(t) + 1] = Len(t.nodes)
    /\ \A i \in NodeIndices(t) :
          /\ NodeAt(t, i).childIndices[NumChildren(t) + 1] = SubtreeSize(t, i)
          /\ i + SubtreeSize(t, i) <= Len(t.nodes)
          /\ IF NodeAt(t, i).hasChildren
             THEN /\ NodeAt(t, i).childIndices[1] = 1
                  /\ \A k \in 0 .. NumChildren(t) - 1 :
                        /\ NodeAt(t, i).childIndices[k + 2]
                           - NodeAt(t, i).childIndices[k + 1]
                               = SubtreeSize(t, children(t, i, k))
                        /\ NodeAt(t, children(t, i, k)).depth
                               = NodeAt(t, i).depth + 1
                        /\ parent(t, children(t, i, k)) = i
             ELSE \A k \in 1 .. NumChildren(t) + 1 :
                      NodeAt(t, i).childIndices[k] = 1

\* C27: after every single or range insert, erase or move and after
\* adjust() at the root the nodes are stored in depth-first pre-order with
\* contiguous subtrees: the sentinel of every node is the number of nodes of
\* its subtree, a node without children has every child offset 1, a node with
\* children has first offset 1 and the offsets of neighbouring children
\* differ by the subtree size of the earlier one, and the sentinel of the
\* root is the length of the node array.
C27_PreOrderOffsets == PreOrderOffsets(tree)

\* A call has just changed the node array and left a node with children
\* below the root, so that a subtree larger than one node lies between
\* siblings.
C27_Witness ==
    /\ last.op # "init"
    /\ last.dn # 0
    /\ \E i \in 1 .. Len(tree.nodes) - 1 : NodeAt(tree, i).hasChildren

\* ------------------------------------------------------------------------
\* The caller that switches autoAdjust.
\* ------------------------------------------------------------------------
\* The node and leaf arrays are intact: the offsets resolve, the subtrees
\* and the leaf ranges are contiguous and every leaf is in the box of its
\* node.
Intact(t) ==
    /\ ParentChildResolve(t)
    /\ SubtreesContiguous(t)
    /\ LeafRangesConcatenate(t)
    /\ LeafsInBox(t)

\* The most leaves in the tree of the caller that switches autoAdjust.
MaxSwitchLeafs == 3

\* The configuration of the tree of the caller that switches autoAdjust: a
\* box that halves exactly down to depth 3.
SwitchConfigs ==
    { [position |-> << 0 >>, dimensions |-> << 8 >>,
       nodeCapacity |-> 1, maxDepth |-> 3] }

\* The points the caller inserts at and moves to: every second point of the
\* root box.
SwitchPositions(t) == { p \in InPositions(t) : p[1] % 2 = 0 }

setAutoAdjust(t, value) == [t EXCEPT !.autoAdjust = value]

\* The run goes on: no call has read behind the end of the node array or left
\* the arrays not intact.
Running == last.op # "moveBehindEnd" /\ Intact(tree)

\* autoAdjust(bool): the caller switches the setting.
AutoAdjust ==
    \E value \in BOOLEAN :
        /\ Running
        /\ value # tree.autoAdjust
        /\ tree' = setAutoAdjust(tree, value)
        /\ last' = Called("autoAdjust", TRUE, tree, tree')
        /\ UNCHANGED << pairs, bulk >>

InsertSwitched ==
    \E position \in SwitchPositions(tree) :
        /\ Running
        /\ Len(tree.leafs) < MaxSwitchLeafs
        /\ \E r \in { insert(tree, 0, 0, position) } :
               /\ tree' = r.t
               /\ last' = Called("insert", r.node # NodesEnd(r.t), tree, r.t)
               /\ UNCHANGED << pairs, bulk >>

EraseSwitched ==
    \E leaf \in ValidLeafHandles(tree) :
        /\ Running
        /\ \E r \in { erase(tree, 0, leaf) } :
            /\ tree' = r.t
            /\ last' = Called("erase", r.node # NodesEnd(r.t), tree, r.t)
            /\ UNCHANGED << pairs, bulk >>

\* move of a leaf of the tree to a point of the box.  Where the first loop
\* leaves dest behind the end of the node array the call reads and then
\* writes behind the end: the read of the loop condition answers either
\* way, the tree is kept as the loop leaves it, and the run ends there.
MoveSwitched ==
    \E leaf \in ValidLeafHandles(tree), position \in SwitchPositions(tree) :
        /\ Running
        /\ IF moveDangles(tree, 0, leaf, position)
           THEN \E contained \in BOOLEAN :
                \E m \in { moveMergeBehindEnd(tree, findLeaf(tree, 0, leaf),
                                              findPoint(tree, 0, position),
                                              contained) } :
                    /\ tree' = m.t
                    /\ last' = Called("moveBehindEnd", FALSE, tree, m.t)
                    /\ UNCHANGED << pairs, bulk >>
           ELSE \E r \in { move(tree, 0, leaf, position) } :
                    /\ tree' = r.t
                    /\ last' = Called("move", r.dest # NodesEnd(r.t), tree, r.t)
                    /\ UNCHANGED << pairs, bulk >>

\* A caller that constructs the tree with autoAdjust enabled, changes it with
\* the single mutators and switches autoAdjust off and on in between,
\* without a call of adjust.  The run ends at the first call that reads
\* behind the end of the node array or leaves the arrays not intact.
InitSwitch ==
    /\ \E c \in SwitchConfigs :
          tree = Orthtree(c.position, c.dimensions, c.nodeCapacity,
                          c.maxDepth, TRUE)
    /\ last = [op |-> "init", ok |-> TRUE, dn |-> 0]
    /\ pairs = << >>
    /\ bulk = "none"

NextSwitch == InsertSwitched \/ EraseSwitched \/ MoveSwitched \/ AutoAdjust

SpecSwitch == InitSwitch /\ [][NextSwitch]_vars

\* The tree was changed with autoAdjust disabled and not adjusted since: a
\* balance rule is broken, and autoAdjust is switched on again.
SwitchedOn(t) == t.autoAdjust /\ ~Balanced(t)

\* move returns a destination handle that names the node without children
\* whose box contains the new position, and leaves the arrays intact.
MoveDestRight(t, leaf, position) ==
    /\ ~moveDangles(t, 0, leaf, position)
    /\ \E r \in { move(t, 0, leaf, position) } :
          /\ Intact(r.t)
          /\ r.dest < Len(r.t.nodes)
          /\ ~NodeAt(r.t, r.dest).hasChildren
          /\ InBox(r.t, r.dest, position)

\* C28: on a tree that was changed with autoAdjust disabled, not adjusted,
\* and has autoAdjust switched on again, a single insert, erase or move
\* leaves parent / child resolution, subtree contiguity, leaf-range
\* concatenation and leaf-in-box intact, and move returns a destination
\* handle that names the node without children that contains the new
\* position.
C28_SwitchedOnKeepsIntact ==
    (Running /\ SwitchedOn(tree)) =>
        /\ \A position \in SwitchPositions(tree) :
              Intact(insert(tree, 0, 0, position).t)
        /\ \A leaf \in ValidLeafHandles(tree) :
              Intact(erase(tree, 0, leaf).t)
        /\ \A leaf \in ValidLeafHandles(tree),
              position \in SwitchPositions(tree) :
              MoveDestRight(tree, leaf, position)

\* The part of C28 about insert and erase.
SwitchedOnInsertEraseIntact ==
    (Running /\ SwitchedOn(tree)) =>
        /\ \A position \in SwitchPositions(tree) :
              Intact(insert(tree, 0, 0, position).t)
        /\ \A leaf \in ValidLeafHandles(tree) :
              Intact(erase(tree, 0, leaf).t)

\* The part of C28 about move where dest stays inside the node array.
SwitchedOnMoveInsideRight ==
    (Running /\ SwitchedOn(tree)) =>
        \A leaf \in ValidLeafHandles(tree),
           position \in SwitchPositions(tree) :
            moveDangles(tree, 0, leaf, position)
                \/ MoveDestRight(tree, leaf, position)

\* On a tree that is balanced the first loop of move never leaves dest
\* behind the end and the destination is right.
BalancedMoveDestRight ==
    (Running /\ tree.autoAdjust /\ Balanced(tree)) =>
        \A leaf \in ValidLeafHandles(tree),
           position \in SwitchPositions(tree) :
            MoveDestRight(tree, leaf, position)

\* ------------------------------------------------------------------------
\* The change of the length of the node array in one call.
\* ------------------------------------------------------------------------
SingleCalls == { "insert", "erase", "move" }

RangeKeepsAutoAdjust(t) ==
    /\ \A n \in 0 .. MaxRange :
       \A values \in ListsOfLen(Values, n),
          positions \in ListsOfLen(RangePositions(t), n) :
           insertRange(t, 0, values, positions).autoAdjust = t.autoAdjust
    /\ \A leafBegin \in 0 .. Len(t.leafs), leafEnd \in 0 .. Len(t.leafs) :
          (leafBegin <= leafEnd /\ leafEnd - leafBegin <= MaxRange) =>
              /\ eraseRange(t, 0, leafBegin, leafEnd).autoAdjust
                     = t.autoAdjust
              /\ \A positions \in ListsOfLen(RangePositions(t),
                                             leafEnd - leafBegin) :
                    moveRange(t, 0, leafBegin, leafEnd, positions, 0)
                        .t.autoAdjust = t.autoAdjust

\* C30: range insert, range erase and range move do not change the
\* autoAdjust setting of the tree: autoAdjust() after the call is what it was
\* before the call, for a tree with autoAdjust true and for a tree with
\* autoAdjust false.
C30_RangeKeepsAutoAdjust == RangeKeepsAutoAdjust(tree)

\* The part of C30 for a tree with autoAdjust true.
RangeKeepsAutoAdjustOn == tree.autoAdjust => RangeKeepsAutoAdjust(tree)

\* The range calls on a tree with autoAdjust false leave it true.
RangeSwitchesAutoAdjustOn ==
    ~tree.autoAdjust =>
        /\ insertRange(tree, 0, << >>, << >>).autoAdjust
        /\ eraseRange(tree, 0, 0, 0).autoAdjust
        /\ moveRange(tree, 0, 0, 0, << >>, 0).t.autoAdjust

\* ------------------------------------------------------------------------
\* The range move with a position outside the root box.
\* ------------------------------------------------------------------------
\* What the range move of [leafBegin, leafEnd) is to make of the numbered
\* tree t when positions may lie outside the root box: the leaf paired with
\* such a position keeps its position, every other leaf of the range has
\* its own paired position, every leaf outside the range keeps its
\* position.  r is the tree the range move made.
MovedPairwiseInside(t, r, leafBegin, leafEnd, positions) ==
    /\ Len(r.leafs) = Len(t.leafs)
    /\ \A j \in 1 .. Len(t.leafs) :
          /\ Cardinality(LeafsOfValue(r.leafs, j)) = 1
          /\ \A k \in LeafsOfValue(r.leafs, j) :
                r.leafs[k].position
                    = IF /\ j - 1 >= leafBegin
                         /\ j - 1 < leafEnd
                         /\ containsPoint(t, 0, positions[j - leafBegin])
                      THEN positions[j - leafBegin]
                      ELSE t.leafs[j].position

\* The lists of n positions of which at least one is outside the root box.
ListsWithOutside(t, n) ==
    { positions \in ListsOfLen(ListPositions(t), n) :
        \E k \in 1 .. n : ~containsPoint(t, 0, positions[k]) }

\* C31: in a range move whose position list has a position outside the root
\* box, the leaf paired with that position stays where it was with its old
\* position, and every other leaf of the range is moved to its own paired
\* position: no leaf gets the position paired with another leaf and no leaf
\* of the range is skipped.
C31_MoveRangeOutsidePairwise ==
    \A leafBegin \in 0 .. Len(tree.leafs), leafEnd \in 0 .. Len(tree.leafs) :
        (leafBegin <= leafEnd /\ leafEnd - leafBegin <= MaxRange) =>
            \A positions \in ListsWithOutside(tree, leafEnd - leafBegin) :
                MovedPairwiseInside(
                    Numbered(tree),
                    moveRange(Numbered(tree), 0, leafBegin, leafEnd,
                              positions, 0).t,
                    leafBegin, leafEnd, positions)

\* The part of C31 for a range of one leaf: the leaf paired with the
\* position outside the box keeps its position.
MoveRangeOneOutsideStays ==
    \A leafBegin \in 0 .. Len(tree.leafs) - 1 :
    \A positions \in ListsWithOutside(tree, 1) :
        MovedPairwiseInside(
            Numbered(tree),
            moveRange(Numbered(tree), 0, leafBegin, leafBegin + 1,
                      positions, 0).t,
            leafBegin, leafBegin + 1, positions)

\* ------------------------------------------------------------------------
\* The node array as a function of the leaf positions.
\* ------------------------------------------------------------------------
\* The number of the points that are in the box of the node record.
CountIn(points, node) ==
    Cardinality({ k \in 1 .. Len(points) :
                    \A d \in 1 .. Len(node.position) :
                        /\ points[k][d] >= node.position[d]
                        /\ points[k][d] - node.position[d]
                               < node.dimensions[d] })

\* The subtree, in pre-order, that belongs to the node record for the points:
\* the node has children exactly when it holds more points than the capacity
\* and is above the depth ceiling.  Only the number of points in each box is
\* read, so the result is the same for every order of the points.
RECURSIVE CanonSubtree(_, _, _, _)
RECURSIVE CanonChildren(_, _, _, _, _, _, _, _)
CanonSubtree(points, node, nodeCapacity, maxDepth) ==
    LET self == [node EXCEPT !.leafCount = CountIn(points, node)]
    IN  IF self.leafCount > nodeCapacity /\ self.depth < maxDepth
        THEN LET c == CanonChildren(points, self, 0, << >>, << 1 >>,
                                    self.leafIndex, nodeCapacity, maxDepth)
             IN  << [self EXCEPT !.hasChildren = TRUE,
                                 !.childIndices = c.offsets] >> \o c.nodes
        ELSE << self >>

CanonChildren(points, p, k, nodes, offsets, leafIndex, nodeCapacity, maxDepth) ==
    IF k >= 2 ^ Len(p.position)
    THEN [nodes |-> nodes, offsets |-> offsets]
    ELSE LET child ==
                 [NodeInternal(p.position, p.dimensions) EXCEPT
                     !.depth        = p.depth + 1,
                     !.parentIndex  = 0 - offsets[k + 1],
                     !.siblingIndex = k,
                     !.leafIndex    = leafIndex,
                     !.dimensions   = Vector([d \in 1 .. Len(p.position) |->
                                          ScalarHalf(p.dimensions[d])]),
                     !.position     = Vector([d \in 1 .. Len(p.position) |->
                                          IF (k \div (2 ^ (d - 1))) % 2 = 1
                                          THEN ScalarAdd(p.position[d],
                                                   ScalarHalf(p.dimensions[d]))
                                          ELSE p.position[d]])]
             sub == CanonSubtree(points, child, nodeCapacity, maxDepth)
         IN  CanonChildren(points, p, k + 1, nodes \o sub,
                           Append(offsets, offsets[k + 1] + Len(sub)),
                           leafIndex + sub[1].leafCount,
                           nodeCapacity, maxDepth)

\* The node array without the user payload.
NodesNoValue(nodes) ==
    Vector([i \in 1 .. Len(nodes) |-> [nodes[i] EXCEPT !.value = 0]])

\* The node array that belongs to the configuration of t and the positions
\* of its leaves.
CanonNodes(t) ==
    CanonSubtree(Vector([j \in 1 .. Len(t.leafs) |-> t.leafs[j].position]),
                 NodeInternal(t.nodes[1].position, t.nodes[1].dimensions),
                 t.nodeCapacity, t.maxDepth)

\* C32: with autoAdjust enabled throughout, the node array, the user payload
\* aside, is a function of the configuration and of the multiset of the leaf
\* positions: after every sequence of single and range inserts, erases and
\* moves it is the array in which a node has children exactly when
\* leafCount > nodeCapacity and depth < maxDepth, so two trees with the same
\* configuration and the same multiset of positions have the same node
\* array.
C32_NodesFromPositions == NodesNoValue(tree.nodes) = CanonNodes(tree)

\* A move has just left a tree with a parent below the root: a tree that
\* inserts alone reach as well.
C32_Witness ==
    /\ last.op = "move"
    /\ last.ok
    /\ last.dn # 0
    /\ \E i \in 1 .. Len(tree.nodes) - 1 : NodeAt(tree, i).hasChildren

\* ------------------------------------------------------------------------
\* The depth ceiling.
\* ------------------------------------------------------------------------
\* No node is below the depth ceiling and no node at the ceiling has
\* children.
DepthBounded(t) ==
    \A i \in NodeIndices(t) :
        /\ NodeAt(t, i).depth <= t.maxDepth
        /\ NodeAt(t, i).hasChildren => NodeAt(t, i).depth < t.maxDepth

\* The empty tree with the configuration of t.
EmptyLike(t) ==
    Orthtree(t.nodes[1].position, t.nodes[1].dimensions, t.nodeCapacity,
             t.maxDepth, t.autoAdjust)

\* The points a leaf of an octree of the test suite is moved to.
OctreeMovePositions == { << 4, 4, 4 >>, << 12, 12, 12 >>, << 13, 13, 13 >> }

\* C33: no split happens at the depth ceiling.  For the pairs that are in
\* the tree: the tree that the single inserts and erases made, the tree
\* after a single move of any of its leaves, the tree that manual inserts
\* followed by adjust make of the pairs and the tree that the bulk
\* constructor makes of them have no node deeper than maxDepth and no node
\* with children at depth maxDepth; with maxDepth 0 they are the root alone.
C33_NoSplitAtMaxDepth ==
    LET values    == Vector([k \in 1 .. Len(pairs) |-> pairs[k][1]])
        positions == Vector([k \in 1 .. Len(pairs) |-> pairs[k][2]])
        adjusted  == insertRange(EmptyLike(tree), 0, values, positions)
        built     == OrthtreeBulk(tree.nodes[1].position,
                                  tree.nodes[1].dimensions, values,
                                  positions, tree.nodeCapacity,
                                  tree.maxDepth, TRUE)
        Holds(t)  == /\ DepthBounded(t)
                     /\ t.maxDepth = 0 => Len(t.nodes) = 1
    IN  /\ Holds(tree)
        /\ Holds(adjusted)
        /\ Holds(built)
        /\ \A leaf \in ValidLeafHandles(tree),
              position \in OctreeMovePositions :
              Holds(move(tree, 0, leaf, position).t)

\* An insert has just put more leaves than the capacity into the root of a
\* tree with maxDepth 0.
C33_Witness ==
    /\ last.op = "insert"
    /\ tree.maxDepth = 0
    /\ Len(tree.leafs) > tree.nodeCapacity

\* Leaves above the capacity are in a node at a depth ceiling above 0, in
\* the tree and in the trees that adjust and the bulk constructor make.
C33_WitnessAtCeiling ==
    /\ tree.maxDepth > 0
    /\ \E i \in NodeIndices(tree) :
          /\ NodeAt(tree, i).depth = tree.maxDepth
          /\ NodeAt(tree, i).leafCount > tree.nodeCapacity

\* ------------------------------------------------------------------------
\* What a split or a merge renumbers.
\* ------------------------------------------------------------------------
\* The index in the array after the split or merge of n of the node that was
\* at index j before and is not a descendant of n: the nodes behind the
\* subtree of n move by change.
IndexAfter(n, j, change) == IF j > n THEN j + change ELSE j

\* The nodes of t that are not descendants of n.
Remaining(t, n) ==
    { j \in NodeIndices(t) : j <= n \/ ~containsNode(t, n, j) }

\* The sibling index of the child of the ancestor a on the path to n.
PathChild(t, a, n) ==
    NodeAt(t, ancestorAtDepth(t, n, NodeAt(t, a).depth + 1)).siblingIndex

\* j is a sibling, positioned after the child on the path to n, in an
\* ancestor of n.
LaterSibling(t, n, j) ==
    /\ hasParent(j)
    /\ parent(t, j) # n
    /\ containsNode(t, parent(t, j), n)
    /\ NodeAt(t, j).siblingIndex > PathChild(t, parent(t, j), n)

\* r is t after a split or merge of n that changed the number of nodes by
\* change: in every ancestor of n the offsets of the later siblings and the
\* sentinel changed by change and the offsets of the path child and of the
\* earlier siblings did not; the parentIndex of exactly the later siblings
\* changed by the opposite; every other node but n kept its offsets.
RenumbersOnlyAfter(t, r, n, change) ==
    /\ Len(r.nodes) = Len(t.nodes) + change
    /\ \A j \in Remaining(t, n) :
          LET old == NodeAt(t, j)
              new == NodeAt(r, IndexAfter(n, j, change))
          IN  /\ new.parentIndex
                     = IF LaterSibling(t, n, j)
                       THEN old.parentIndex - change
                       ELSE old.parentIndex
              /\ new.siblingIndex = old.siblingIndex
              /\ new.depth = old.depth
              /\ j # n =>
                    \A k \in 0 .. NumChildren(t) :
                        new.childIndices[k + 1]
                            = IF /\ j < n
                                 /\ containsNode(t, j, n)
                                 /\ k > PathChild(t, j, n)
                              THEN old.childIndices[k + 1] + change
                              ELSE old.childIndices[k + 1]

\* C34: a split or merge of a node n renumbers only what lies after n.  From
\* every reachable tree, createChildren of every node without children and
\* destroyChildren of every node with children change, in each ancestor of
\* n, the child offsets of the siblings after the child on the path to n
\* and the sentinel by the change of the number of nodes, and the
\* parentIndex of exactly those siblings by the opposite; the offsets of the
\* earlier siblings and of every other node stay.
C34_RenumbersOnlyAfter ==
    \A n \in NodeIndices(tree) :
        IF NodeAt(tree, n).hasChildren
        THEN RenumbersOnlyAfter(tree, destroyChildren(tree, n), n,
                                0 - descendantsSize(tree, n))
        ELSE RenumbersOnlyAfter(tree, createChildren(tree, n), n,
                                NumChildren(tree))

\* The tree has, below the root, a node and a node with children that each
\* have a sibling positioned after the child on the path from an ancestor.
C34_Witness ==
    /\ last.op # "init"
    /\ \E n \in NodeIndices(tree), m \in NodeIndices(tree) :
          /\ NodeAt(tree, n).depth >= 1
          /\ NodeAt(tree, m).depth >= 1
          /\ NodeAt(tree, m).hasChildren
          /\ \E j \in NodeIndices(tree) : LaterSibling(tree, n, j)
          /\ \E j \in NodeIndices(tree) : LaterSibling(tree, m, j)

\* ------------------------------------------------------------------------
\* What createChildren does to the leaves.
\* ------------------------------------------------------------------------
\* The leaves of the slice of node i, in the order of the array.
LeafSlice(t, i) ==
    SubSeq(t.leafs, NodeAt(t, i).leafIndex + 1,
           NodeAt(t, i).leafIndex + NodeAt(t, i).leafCount)

\* The leaves of a sequence whose position selects child k of node i, in the
\* order of the sequence.
RECURSIVE LeafsOfChild(_, _, _, _)
LeafsOfChild(t, i, k, leafs) ==
    IF leafs = << >> THEN << >>
    ELSE (IF childIndexOf(t, i, Head(leafs).position, 1) = k
          THEN << Head(leafs) >> ELSE << >>)
         \o LeafsOfChild(t, i, k, Tail(leafs))

\* r is t after the split of the childless node n.
SplitDistributesStably(t, r, n) ==
    /\ Len(r.nodes) = Len(t.nodes) + NumChildren(t)
    /\ \A k \in 0 .. NumChildren(t) - 1 :
          /\ ~NodeAt(r, n + 1 + k).hasChildren
          /\ NodeAt(r, n + 1 + k).depth = NodeAt(t, n).depth + 1
          /\ n + 1 + k + NodeAt(r, n + 1 + k).parentIndex = n
          /\ NodeAt(r, n + 1 + k).siblingIndex = k
          /\ LeafSlice(r, n + 1 + k) = LeafsOfChild(t, n, k, LeafSlice(t, n))
    /\ NodeAt(r, n).hasChildren
    /\ NodeAt(r, n).leafIndex = NodeAt(t, n).leafIndex
    /\ NodeAt(r, n).leafCount = NodeAt(t, n).leafCount
    /\ Len(r.leafs) = Len(t.leafs)
    /\ \A j \in 1 .. Len(t.leafs) :
          ~containsLeaf(t, n, j - 1) => r.leafs[j] = t.leafs[j]
    /\ \A j \in NodeIndices(t) :
          /\ NodeAt(r, IndexAfter(n, j, NumChildren(t))).leafIndex
                 = NodeAt(t, j).leafIndex
          /\ NodeAt(r, IndexAfter(n, j, NumChildren(t))).leafCount
                 = NodeAt(t, j).leafCount

\* C35: createChildren(n) adds exactly 2^Dim childless nodes directly after
\* n and redistributes the leaves of n stably: the slice of child k is the
\* subsequence, in the previous order, of the leaves of n whose position
\* selects child k; n keeps its leafIndex and leafCount, and the leaves
\* outside the range of n and the leaf ranges of all other nodes stay.  The
\* trees are the structurally valid ones.
C35_SplitDistributesStably ==
    Intact(tree) =>
        \A n \in NodeIndices(tree) :
            ~NodeAt(tree, n).hasChildren
                => SplitDistributesStably(tree, createChildren(tree, n), n)

\* A childless node holds two different leaves that go to one child, the
\* first of them in front of a leaf that goes to an earlier child.
C35_Witness ==
    /\ last.op # "init"
    /\ Intact(tree)
    /\ \E n \in NodeIndices(tree) :
          /\ ~NodeAt(tree, n).hasChildren
          /\ \E a, b, c \in 1 .. Len(LeafSlice(tree, n)) :
                LET leafs == LeafSlice(tree, n)
                    child(x) == childIndexOf(tree, n, leafs[x].position, 1)
                IN  /\ a < c
                    /\ c < b
                    /\ leafs[a] # leafs[b]
                    /\ child(a) = child(b)
                    /\ child(c) < child(a)

\* ------------------------------------------------------------------------
\* What moveAt relocates.
\* ------------------------------------------------------------------------
\* The sequence without its element at index j (from 0).
WithoutAt(seq, j) == SubSeq(seq, 1, j) \o SubSeq(seq, j + 2, Len(seq))

\* r is the result of moveAt(sourceNode, destNode, sourceLeaf) on t, destLeaf
\* being the end of the slice of destNode in t.
BlockRotation(t, r, sourceNode, destNode, sourceLeaf) ==
    LET destLeaf == leafsEnd(t, destNode)
        lo == IF destLeaf > sourceLeaf THEN sourceLeaf ELSE destLeaf
        hi == IF destLeaf > sourceLeaf THEN destLeaf - 1 ELSE sourceLeaf
        first == IF sourceNode >= destNode THEN destNode ELSE sourceNode
        final == IF sourceNode >= destNode THEN sourceNode ELSE destNode
    IN  /\ Len(r.t.leafs) = Len(t.leafs)
        /\ Len(r.t.nodes) = Len(t.nodes)
        /\ r.t.leafs[r.leaf + 1] = t.leafs[sourceLeaf + 1]
        /\ r.leaf = leafsEnd(r.t, destNode) - 1
        /\ \A j \in 0 .. Len(t.leafs) - 1 :
              /\ (j < lo \/ j > hi) => r.t.leafs[j + 1] = t.leafs[j + 1]
              /\ (destLeaf > sourceLeaf /\ sourceLeaf < j /\ j < destLeaf)
                    => r.t.leafs[j] = t.leafs[j + 1]
              /\ (destLeaf < sourceLeaf /\ destLeaf <= j /\ j < sourceLeaf)
                    => r.t.leafs[j + 2] = t.leafs[j + 1]
        /\ WithoutAt(r.t.leafs, r.leaf) = WithoutAt(t.leafs, sourceLeaf)
        /\ \A k \in NodeIndices(t) :
              /\ NodeAt(r.t, k).leafIndex
                     = IF first < k /\ k <= final
                       THEN NodeAt(t, k).leafIndex
                                + (IF sourceNode >= destNode THEN 1 ELSE 0 - 1)
                       ELSE NodeAt(t, k).leafIndex
              /\ NodeAt(r.t, k).leafCount
                     = NodeAt(t, k).leafCount
                           + (IF containsNode(t, k, destNode) THEN 1 ELSE 0)
                           - (IF containsNode(t, k, sourceNode) THEN 1 ELSE 0)
              /\ (containsNode(t, k, sourceNode) /\ containsNode(t, k, destNode))
                    => NodeAt(r.t, k).leafCount = NodeAt(t, k).leafCount

\* The moves of a leaf of the tree from the childless node that holds it to
\* a childless node.
Relocations(t) ==
    { m \in [sourceNode : NodeIndices(t), destNode : NodeIndices(t),
             sourceLeaf : 0 .. Len(t.leafs) - 1] :
          /\ ~NodeAt(t, m.sourceNode).hasChildren
          /\ ~NodeAt(t, m.destNode).hasChildren
          /\ containsLeaf(t, m.sourceNode, m.sourceLeaf) }

\* C36: the relocation in move is a block rotation.  moveAt of a leaf from
\* index s to the end t of the slice of the destination node shifts the
\* leaves between s and t by one slot toward s in their order, leaves the
\* leaves outside untouched, changes the leafIndex, by one, of exactly the
\* nodes stored after the earlier of source and destination up to and
\* including the later one, and leaves the leafCount of every common
\* ancestor of source and destination unchanged.
C36_MoveAtBlockRotation ==
    \A m \in Relocations(tree) :
        BlockRotation(tree,
                      moveAt(tree, m.sourceNode, m.destNode, m.sourceLeaf),
                      m.sourceNode, m.destNode, m.sourceLeaf)

\* A leaf can go to a later node and a leaf to an earlier node, each over
\* two leaves or more and over nodes between source and destination.
C36_Witness ==
    /\ last.op # "init"
    /\ \E m \in Relocations(tree) :
          /\ leafsEnd(tree, m.destNode) > m.sourceLeaf + 2
          /\ m.destNode > m.sourceNode + 1
    /\ \E m \in Relocations(tree) :
          /\ leafsEnd(tree, m.destNode) < m.sourceLeaf - 1
          /\ m.destNode < m.sourceNode - 1

\* ------------------------------------------------------------------------
\* What destroyChildren leaves in place.
\* ------------------------------------------------------------------------
\* The fields of a node that do not depend on where the node is stored.
NodeContent(node) ==
    [position |-> node.position, dimensions |-> node.dimensions,
     depth |-> node.depth, siblingIndex |-> node.siblingIndex,
     leafIndex |-> node.leafIndex, leafCount |-> node.leafCount,
     hasChildren |-> node.hasChildren, value |-> node.value]

\* r is t after the merge of the node n, which had children.
MergeRelocatesNoLeaf(t, r, n) ==
    /\ r.leafs = t.leafs
    /\ ValidLeafHandles(r) = ValidLeafHandles(t)
    /\ \A leaf \in ValidLeafHandles(t) : LeafAt(r, leaf) = LeafAt(t, leaf)
    /\ NodeAt(r, n).leafIndex = NodeAt(t, n).leafIndex
    /\ NodeAt(r, n).leafCount = NodeAt(t, n).leafCount
    /\ ~NodeAt(r, n).hasChildren
    /\ \A k \in 1 .. NumChildren(t) + 1 : NodeAt(r, n).childIndices[k] = 1
    /\ Len(r.nodes) = Len(t.nodes) - descendantsSize(t, n)
    /\ \A j \in Remaining(t, n) :
          j # n => NodeContent(NodeAt(r, IndexAfter(n, j,
                                   0 - descendantsSize(t, n))))
                       = NodeContent(NodeAt(t, j))

\* C37: destroyChildren(n) relocates no leaf.  The leaf array is the same
\* before and after, n keeps its leafIndex and leafCount, the whole
\* descendant range of n leaves the node array and the other nodes stay in
\* their order, n then has hasChildren false and every child offset 1, and
\* every leaf handle from before names the same leaf.
C37_MergeRelocatesNoLeaf ==
    \A n \in NodeIndices(tree) :
        NodeAt(tree, n).hasChildren
            => MergeRelocatesNoLeaf(tree, destroyChildren(tree, n), n)

\* A node that holds leaves has children that have children, and a node
\* that holds leaves has children and nodes stored behind them.
C37_Witness ==
    /\ last.op # "init"
    /\ \E n \in NodeIndices(tree) :
          /\ NodeAt(tree, n).hasChildren
          /\ NodeAt(tree, n).leafCount > 1
          /\ descendantsSize(tree, n) > NumChildren(tree)
    /\ \E n \in NodeIndices(tree) :
          /\ NodeAt(tree, n).hasChildren
          /\ NodeAt(tree, n).leafCount > 1
          /\ n + descendantsSize(tree, n) < Len(tree.nodes) - 1

\* ------------------------------------------------------------------------
\* The number of passes of the loops.
\* ------------------------------------------------------------------------
\* The record of the locals the loop of adjust(node) ends at.
adjustWalked(t, node) ==
    adjustWalk(t, node,
        [new           |-> newOrthtree(t, node),
         oldNode       |-> node,
         newNode       |-> 0,
         parentOffsets |-> << 0 >>,
         result        |-> FALSE])

\* The record of the locals the loop of the range move ends at.
moveEachEnd(t, hint, leafBegin, leafEnd, positions, pad) ==
    moveEach([t              |-> [t EXCEPT !.autoAdjust = FALSE],
              processed      |-> Vector([j \in 1 .. leafEnd - leafBegin |->
                                            FALSE]),
              processedIndex |-> 0,
              leafIndex      |-> 0,
              outside        |-> FALSE,
              early          |-> FALSE],
             hint, leafBegin, positions, pad)

\* The number of nodes of a tree that is split everywhere down to maxDepth.
RECURSIVE FullSize(_, _)
FullSize(numChildren, depth) ==
    IF depth = 0 THEN 1 ELSE 1 + numChildren * FullSize(numChildren, depth - 1)

\* The split loop of insert, which goes one level down a pass, makes at
\* most maxDepth passes and ends at a node of the tree.
InsertSplitBounded(t, position) ==
    \E found \in { findPoint(t, 0, position) } :
    \E r \in { insertSplit(t, found, position) } :
        LET passes == NodeAt(r.t, r.node).depth - NodeAt(t, found).depth
        IN  /\ r.node \in NodeIndices(r.t)
            /\ passes >= 0
            /\ passes <= t.maxDepth
            /\ NodeAt(r.t, r.node).depth <= t.maxDepth
            /\ Len(r.t.nodes) = Len(t.nodes) + passes * NumChildren(t)

\* The merge loop of erase, which goes one level up a pass, stops at the
\* root at the latest.
EraseMergeBounded(t, leaf) ==
    \E found \in { findLeaf(t, 0, leaf) } :
    \E m \in { eraseMerge(t, found) } :
        /\ m.node \in NodeIndices(m.t)
        /\ NodeAt(m.t, m.node).depth >= 0
        /\ NodeAt(m.t, m.node).depth <= NodeAt(t, found).depth
        /\ m.node = 0 <=> NodeAt(m.t, m.node).depth = 0

\* The two loops of move: the merge loop stops at the root at the latest,
\* the split loop makes at most maxDepth passes.
MoveLoopsBounded(t, leaf, position) ==
    \E source \in { findLeaf(t, 0, leaf) } :
    \E dest \in { findPoint(t, 0, position) } :
    \E m \in { moveMerge(t, source, dest) } :
    \E r \in { moveSplitFrom(m, position) } :
        LET passes == NodeAt(r.t, r.dest).depth - NodeAt(m.t, m.dest).depth
        IN  /\ m.source \in NodeIndices(m.t)
            /\ m.dest \in NodeIndices(m.t)
            /\ NodeAt(m.t, m.source).depth <= NodeAt(t, source).depth
            /\ r.dest \in NodeIndices(r.t)
            /\ passes >= 0
            /\ passes <= t.maxDepth
            /\ NodeAt(r.t, r.dest).depth <= t.maxDepth
            /\ Len(r.t.nodes) = Len(m.t.nodes) + passes * NumChildren(t)

\* The loop of the range move makes one pass per leaf of the range, and the
\* skip loop advances by the number of leaves of the range at most.
MoveEachBounded(t, leafBegin, leafEnd, positions) ==
    \E s \in { moveEachEnd(t, 0, leafBegin, leafEnd, positions, 0) } :
        /\ s.leafIndex = leafEnd - leafBegin
        /\ s.processedIndex <= leafEnd - leafBegin
        /\ Len(s.processed) = leafEnd - leafBegin

\* The loop of adjust(node) makes one pass per node of the new subtree, and
\* its cursor in the old subtree stays in the old subtree.
AdjustWalkBounded(t, node) ==
    \E s \in { adjustWalked(t, node) } :
        /\ s.newNode = Len(s.new.nodes)
        /\ Len(s.new.nodes)
               <= FullSize(NumChildren(t), t.maxDepth - NodeAt(t, node).depth)
        /\ s.oldNode >= node
        /\ s.oldNode <= node + descendantsSize(t, node)

\* The trees adjust is called on: the tree, the tree with all its leaves put
\* into the root, and the tree with its first leaves erased without a merge.
AdjustInputs(t) ==
    { t, insertEach([EmptyLike(t) EXCEPT !.autoAdjust = FALSE], 0,
                    Vector([k \in 1 .. Len(t.leafs) |-> t.leafs[k].value]),
                    Vector([k \in 1 .. Len(t.leafs) |-> t.leafs[k].position]),
                    1) }
    \cup { eraseEach([t EXCEPT !.autoAdjust = FALSE], 0, 0, k - 1) :
               k \in 1 .. Len(t.leafs) }

\* The positions of the moves: two points of the box and one outside.
ScanPositions == { << 4, 4, 4 >>, << 13, 13, 13 >>, << 0 - 1, 0 - 1, 0 - 1 >> }

BitSet(k, d) == (k \div (2 ^ (d - 1))) % 2 = 1

\* The dimensions of node i halve exactly.
HalvesExactly(t, i) ==
    \A d \in 1 .. Dim(t) :
        2 * ScalarHalf(NodeAt(t, i).dimensions[d]) = NodeAt(t, i).dimensions[d]

\* The first and the last coordinate of each half of the box of node i on
\* axis d, and the points of the box made of them.
AxisPoints(t, i, d) ==
    { NodeAt(t, i).position[d],
      NodeAt(t, i).position[d] + ScalarHalf(NodeAt(t, i).dimensions[d]) - 1,
      NodeAt(t, i).position[d] + ScalarHalf(NodeAt(t, i).dimensions[d]),
      NodeAt(t, i).position[d] + NodeAt(t, i).dimensions[d] - 1 }

RECURSIVE CornerPointsTo(_, _, _)
CornerPointsTo(t, i, d) ==
    IF d = 0 THEN { << >> }
    ELSE { Append(point, x) : point \in CornerPointsTo(t, i, d - 1),
                              x \in AxisPoints(t, i, d) }

CornerPoints(t, i) == CornerPointsTo(t, i, Dim(t))

\* The node i of t has children: child k has half the dimensions of i and
\* the position of i shifted by the half on the axes whose bit of k is set;
\* every corner point of the box of i is in the box of one child, the one
\* that findChild answers.
ChildBoxesAgree(t, i) ==
    /\ \A k \in 0 .. NumChildren(t) - 1 :
          \A d \in 1 .. Dim(t) :
              /\ NodeAt(t, children(t, i, k)).dimensions[d]
                     = ScalarHalf(NodeAt(t, i).dimensions[d])
              /\ NodeAt(t, children(t, i, k)).position[d]
                     = IF BitSet(k, d)
                       THEN NodeAt(t, i).position[d]
                                + ScalarHalf(NodeAt(t, i).dimensions[d])
                       ELSE NodeAt(t, i).position[d]
    /\ \A point \in CornerPoints(t, i) :
          /\ containsPoint(t, i, point)
          /\ \A k \in 0 .. NumChildren(t) - 1 :
                containsPoint(t, children(t, i, k), point)
                    <=> children(t, i, k) = findChildPoint(t, i, point)
          /\ \E k \in 0 .. NumChildren(t) - 1 :
                children(t, i, k) = findChildPoint(t, i, point)

\* C39: the split geometry and the descent rule never disagree.  In every
\* reachable octree, for every node that has children and for the children
\* that createChildren gives a childless node whose dimensions halve
\* exactly, child k has on each axis d half the dimension of the parent and
\* the position of the parent shifted by that half exactly when bit d of k
\* is set; the boxes of the children partition the box of the parent, and
\* findChild(node, point) is the one child whose box contains the point.
C39_ChildBoxesAgree ==
    \A i \in NodeIndices(tree) :
        IF NodeAt(tree, i).hasChildren
        THEN ChildBoxesAgree(tree, i)
        ELSE HalvesExactly(tree, i)
                 => \E r \in { createChildren(tree, i) } :
                        ChildBoxesAgree(r, i)

\* The tree has a node below the root that has children and holds a leaf,
\* and a childless node below the root whose dimensions halve exactly.
C39_Witness ==
    /\ last.op # "init"
    /\ \E i \in NodeIndices(tree) :
          /\ NodeAt(tree, i).depth >= 1
          /\ NodeAt(tree, i).hasChildren
          /\ NodeAt(tree, i).leafCount >= 1
    /\ \E i \in NodeIndices(tree) :
          /\ NodeAt(tree, i).depth >= 1
          /\ ~NodeAt(tree, i).hasChildren
          /\ HalvesExactly(tree, i)

\* ------------------------------------------------------------------------
\* The indices of the accesses to the processed flags.
\* ------------------------------------------------------------------------
\* The range moves of the caller on t: the range and the list of positions.
RangeMoves(t) ==
    { m \in [leafBegin : 0 .. Len(t.leafs), leafEnd : 0 .. Len(t.leafs),
             positions : Lists(RangePositions(t), MaxRange)] :
          /\ m.leafBegin <= m.leafEnd
          /\ m.leafEnd - m.leafBegin <= MaxRange
          /\ Len(m.positions) = m.leafEnd - m.leafBegin }

\* C40: during a range move over n leaves every read and write of the
\* processed flags uses an index in [0, n); the skip loop never reads the
\* entry at index n after the last leaf of the range has been handled.
C40_ProcessedIndexInRange ==
    \A m \in RangeMoves(tree) :
        ~moveRange(tree, 0, m.leafBegin, m.leafEnd, m.positions, 0).outside

\* A range move over no leaf does not access the flags.
EmptyRangeNoAccess ==
    \A m \in RangeMoves(tree) :
        m.leafBegin = m.leafEnd
            => ~moveRange(tree, 0, m.leafBegin, m.leafEnd, m.positions,
                          0).outside
====
